---- MODULE Spec2Model ----
(***************************************************************************)
(* Model of the registry synchronisation of brioche                        *)
(* (crates/brioche-core/src/sync/legacy_sync.rs).                          *)
(*                                                                         *)
(* One sync_bakes run at a time is modelled as a process whose position    *)
(* `pc` is the await it is suspended in.  Every upload of a fan-out phase  *)
(* is a task created by tokio::spawn; the parent only holds its            *)
(* JoinHandle, so a task outlives the parent when the parent is dropped    *)
(* or returns early (`detached`).                                          *)
(*                                                                         *)
(* SpecProject runs sync_project_references, SpecClosure the closure       *)
(* computation one popped hash at a time, SpecFanOut one fan-out phase     *)
(* with counted items, and SpecVfs the calls of the Vfs                    *)
(* (crates/brioche/src/vfs.rs).                                            *)
(***************************************************************************)
EXTENDS Integers, Sequences, FiniteSets, TLC

\* ---------------------------------------------------------------- bounds
MaxBakes == 2      \* longest input list handed to sync_bakes
MaxItems == 27     \* most novel items of one fan-out phase
MaxPermits == 1    \* permits of the save-blob semaphore

\* ------------------------------------------------------- local recipe store
\* The recipes and artifacts of the local store.  R1 embeds R2, R2 embeds
\* blob B1; A1 is a file artifact over blob B2; A2 is a symlink artifact.
RecipeHashes == {"R1", "R2", "A1", "A2"}
BlobHashes == {"B1", "B2"}
ReferencedRecipes(h) == IF h = "R1" THEN {"R2"} ELSE {}
ReferencedBlobs(h) == IF h = "R2" THEN {"B1"} ELSE IF h = "A1" THEN {"B2"} ELSE {}

\* The bytes of a blob, and the byte strings a caller can hold in memory.
BlobBytes(h) == CASE h = "B1" -> "b1" [] h = "B2" -> "b2" [] OTHER -> "l1"
Bytes == {"b2", "l1"}

\* Blobs and projects that project references can name besides BlobHashes.
LoadedBlobHashes == {"B2", "L1"}
ProjectHashes == {"P1", "P2"}

\* A map without entries.
EmptyMap == [x \in {} |-> x]

\* The (recipe, artifact) pairs that baking can have produced locally.
BakedPairs == {<<"R1", "A1">>, <<"R2", "A2">>}

RECURSIVE SeqsUpTo(_, _)
SeqsUpTo(S, n) ==
    IF n = 0 THEN {<<>>}
    ELSE LET shorter == SeqsUpTo(S, n - 1)
         IN shorter \cup {Append(s, x) : s \in {t \in shorter : Len(t) = n - 1}, x \in S}

Range(s) == {s[i] : i \in 1..Len(s)}

\* ------------------------------------------------------------- closure
\* references::recipe_references: worklist over the unvisited hashes.
RECURSIVE recipe_references(_, _)
recipe_references(references, unvisited) ==
    LET todo == unvisited \ references.recipes
    IN IF todo = {} THEN references
       ELSE recipe_references(
                [recipes |-> references.recipes \cup todo,
                 blobs |-> references.blobs \cup UNION {ReferencedBlobs(h) : h \in todo}],
                UNION {ReferencedRecipes(h) : h \in todo})

EmptyReferences == [recipes |-> {}, blobs |-> {}]

\* As SeedHashes, seeded with the input recipes only.
SeedWithoutOutputs(bs) == {bs[i][1] : i \in 1..Len(bs)}
\* sync_bakes: the closure is seeded with input.hash() and output.hash() of
\* every pair.
SeedHashes(bs) == {bs[i][1] : i \in 1..Len(bs)} \cup {bs[i][2] : i \in 1..Len(bs)}

\* ------------------------------------------------------------- diffing
\* `all.len() - known.len()` of the three diffs (NumNewAll: `all.len()`).
\* The operands are usize: a negative -k stands for the wrapped 2^64 - k.
NumNewAll(nAll, nKnown) == nAll
NumNew(nAll, nKnown) == nAll - nKnown

\* The registry's answer to a known_* query: the asked items it stores.
KnownOf(asked, stored) == asked \cap stored

NewBlobsInverted(allBlobs, known) == allBlobs \cap known
NewBlobs(allBlobs, known) == allBlobs \ known

NewRecipesInverted(references, known) == references.recipes \cap known
NewRecipes(references, known) == references.recipes \ known

NewProjectsInverted(allProjects, known) == allProjects \cap known
\* `new_projects.remove(project_hash)` for each known project hash.
NewProjects(allProjects, known) == allProjects \ known

NewBakesInverted(allBakes, known) == {i \in 1..Len(allBakes) : allBakes[i] \in known}
\* Indices of all_bakes that pass the `!known_bakes.contains(bake)` filter.
NewBakes(allBakes, known) == {i \in 1..Len(allBakes) : allBakes[i] \notin known}

\* ------------------------------------------------------------- fan-out
\* The limit handed to try_for_each_concurrent by each fan-out phase.
ConcurrencyLimit(phase) ==
    CASE phase = "bakes" -> 25
      [] phase = "blobs" -> 25
      [] phase = "loaded_blobs" -> 25

\* try_for_each_concurrent takes the next item off the stream only while
\* fewer than `limit` futures are in progress (CanAdmitOneMore: while no
\* more than `limit` are).
CanAdmitOneMore(phase, n) == n <= ConcurrencyLimit(phase)
CanAdmit(phase, n) == n < ConcurrencyLimit(phase)

\* try_for_each_concurrent resolves to Ok when the stream is exhausted and
\* every admitted future has completed (FanOutFinishedEarly: as soon as the
\* stream is exhausted).
FanOutFinishedEarly(pend, infl) == pend = {}
FanOutFinished(pend, infl) == pend = {} /\ infl = {}

\* ------------------------------------------------------------- records
\* FileId of the Vfs: Hash(blake3) or Mutable(ulid); NoId stands for None.
FileId(kind, v) == [kind |-> kind, v |-> v]
NoId == FileId("none", "")
NoBytes == "<none>"

Call(op, hashes, pairs) == [op |-> op, hashes |-> hashes, pairs |-> pairs]
NoError == Call("none", {}, <<>>)

BlobTask(b) == [op |-> "send_blob", hash |-> b, pair |-> <<>>, idx |-> 0, stage |-> "queued"]
BakeTask(allBakes, i) ==
    [op |-> "create_bake", hash |-> "", pair |-> allBakes[i], idx |-> i, stage |-> "queued"]

\* A loaded blob of the project references: its bytes are sent from memory.
LoadedBlobTask(b) ==
    [op |-> "send_loaded_blob", hash |-> b, pair |-> <<>>, idx |-> 0, stage |-> "queued"]

\* The registry-client call a task makes.
TaskCall(t) == IF t.op = "create_bake" THEN Call("create_bake", {}, <<t.pair>>)
               ELSE Call("send_blob", {t.hash}, <<>>)

\* The tasks whose JoinHandles are dropped, with the reason of the drop.
Detach(tasks, cause) ==
    {[op |-> t.op, hash |-> t.hash, pair |-> t.pair, stage |-> t.stage, cause |-> cause] :
        t \in tasks}

SyncBakesResults(nBakes, nBlobs, nRecipes) ==
    [num_new_bakes |-> nBakes, num_new_blobs |-> nBlobs, num_new_recipes |-> nRecipes]

\* ------------------------------------------------------------- state
VARIABLES
    regBlobs, regRecipes, regBakes,   \* what the registry stores
    pc,                               \* the await the run is suspended in
    bakes,                            \* sync_bakes argument (hash pairs)
    sync_references,                  \* closure of the seeds
    pending, inflight,                \* fan-out: not yet admitted / spawned tasks
    num_new_blobs, num_new_recipes, num_new_bakes,
    new_recipes,                      \* batch handed to create_recipes
    error,                            \* the Err the run returned
    calls,                            \* registry-client calls of the run, in issue order
    detached,                         \* spawned tasks whose JoinHandle was dropped
    prev, repeat,                     \* how the run before ended; same input as that run
    fanPhase, fanStatus, fanQueued, fanInFlight, fanDone,  \* one fan-out phase, counted
    entry,                            \* the sync function that was called
    loaded_blobs, projects,           \* ProjectReferences: (hash, bytes) entries; hashes
    new_projects,                     \* batch handed to create_projects
    regProjects,                      \* projects the registry stores
    blobStore,                        \* hashes that have a file in the Blob store
    store_reads,                      \* blobs a task looked up and read in the Blob store
    loaded_sent,                      \* (hash, bytes) sent by loaded-blob tasks
    vfs_mutable, contents, locations_to_ids, ids_to_locations,   \* the Vfs
    poisoned,                         \* the RwLock of the Vfs is poisoned
    disk,                             \* bytes of the files on disk
    loads,                            \* Vfs::load calls: where each is suspended
    ulids,                            \* Ulids generated so far
    last,                             \* the last call on the Vfs that returned
    seeds, unvisited,                 \* recipe_references: its seeds and its work queue
    fid_id, fid_bytes, fid_text,      \* a FileId, file contents and a string
    fid_shown,                        \* fid_text is what Display wrote for fid_id
    fid_result,                       \* what from_str or validate_matches returned
    rwlock,                           \* holders of the RwLock of the Vfs
    active,                           \* load_cached, read and update calls under way
    rep_kind,                         \* which start_*_reporter made the Reporter
    channel,                          \* events sent on the mpsc channel, not yet received
    handled,                          \* events the console has applied, in order
    running, thread,                  \* the reporter thread: its flag and its position
    ack,                              \* the oneshot channel of the acknowledgement
    shutdown_rx, guard,               \* ReporterGuard: its Option and what is done with it
    next_id, adding, job_ids,         \* add_job: the counter, calls under way, ids returned
    jobs,                             \* jobs of the console
    unpack_pc,                        \* resolve_unpack: where it is
    archive, archive_size,            \* entries not yet read; length of the archive file
    directory,                        \* paths inserted into the Directory
    progress                          \* progress_percent of the updates sent, in order

vars == <<regBlobs, regRecipes, regBakes, pc, bakes, sync_references, pending, inflight,
          num_new_blobs, num_new_recipes, num_new_bakes, new_recipes, error, calls,
          detached, prev, repeat, fanPhase, fanStatus, fanQueued, fanInFlight,
          fanDone, entry, loaded_blobs, projects, new_projects, regProjects, blobStore,
          store_reads, loaded_sent, vfs_mutable, contents, locations_to_ids,
          ids_to_locations, poisoned, disk, loads, ulids, last, seeds, unvisited,
          fid_id, fid_bytes, fid_text, fid_shown, fid_result, rwlock, active, rep_kind,
          channel, handled, running, thread, ack, shutdown_rx, guard, next_id, adding,
          job_ids, jobs, unpack_pc, archive, archive_size, directory, progress>>

regVars == <<regBlobs, regRecipes, regBakes>>
fanVars == <<fanPhase, fanStatus, fanQueued, fanInFlight, fanDone>>
projRun == <<entry, loaded_blobs, projects, new_projects, regProjects>>
projVars == <<projRun, blobStore, store_reads, loaded_sent>>
vfsTables == <<contents, locations_to_ids, ids_to_locations>>
closureVars == <<seeds, unvisited>>
fidVars == <<fid_id, fid_bytes, fid_text, fid_shown, fid_result>>
lockVars == <<rwlock, active>>
repVars == <<rep_kind, channel, handled, running, thread, ack, shutdown_rx, guard, next_id,
             adding, job_ids, jobs>>
unpackVars == <<unpack_pc, archive, archive_size, directory, progress>>
vfsVars == <<vfs_mutable, vfsTables, poisoned, disk, loads, ulids, last>>
runVars == <<pc, bakes, sync_references, pending, inflight, num_new_blobs, num_new_recipes,
             num_new_bakes, new_recipes, error, calls, prev, repeat>>

\* The run repeats the input of a run that returned Ok just before it.
resync == prev = "done" /\ repeat

Terminal == {"idle", "done", "failed", "abandoned", "panicked"}
FanPhases == {"bakes", "blobs", "loaded_blobs"}
RecipePhase == {"known_recipes", "create_recipes"}
BakePhase == {"known_bakes", "bakes"}

\* A registry that only ever served this protocol.
RegistryConsistent(blobs, recipes, bks) ==
    /\ \A r \in recipes : ReferencedBlobs(r) \subseteq blobs
    /\ \A b \in bks :
          LET c == recipe_references(EmptyReferences, {b[1]})
          IN c.recipes \subseteq recipes /\ c.blobs \subseteq blobs

InitRun ==
    /\ pc = "idle"
    /\ bakes = <<>>
    /\ sync_references = EmptyReferences
    /\ pending = {}
    /\ inflight = {}
    /\ num_new_blobs = 0
    /\ num_new_recipes = 0
    /\ num_new_bakes = 0
    /\ new_recipes = {}
    /\ error = NoError
    /\ calls = <<>>
    /\ detached = {}
    /\ prev = "none"
    /\ repeat = FALSE

InitFanOff ==
    /\ fanPhase = "none"
    /\ fanStatus = "off"
    /\ fanQueued = 0
    /\ fanInFlight = 0
    /\ fanDone = 0

\* No project references are being synchronised.
InitProjOff ==
    /\ entry = "sync_bakes"
    /\ loaded_blobs = EmptyMap
    /\ projects = {}
    /\ new_projects = {}
    /\ regProjects = {}
    /\ blobStore = BlobHashes
    /\ store_reads = {}
    /\ loaded_sent = {}

\* What a call on the Vfs returned: Ok with a FileId and bytes (NoId,
\* NoBytes for None), Err, or a panic.
Return(op, res, id, bytes, path) ==
    [op |-> op, res |-> res, id |-> id, bytes |-> bytes, path |-> path]
NoReturn == Return("none", "ok", NoId, NoBytes, "")

\* No Vfs is in use.
InitVfsOff ==
    /\ vfs_mutable = FALSE
    /\ contents = EmptyMap
    /\ locations_to_ids = EmptyMap
    /\ ids_to_locations = EmptyMap
    /\ poisoned = FALSE
    /\ disk = EmptyMap
    /\ loads = {}
    /\ ulids = 0
    /\ last = NoReturn

\* recipe_references is not running.
InitClosureOff ==
    /\ seeds = {}
    /\ unvisited = {}

\* No FileId is formatted, parsed or validated.
NoFid == FileId("none", <<>>)
NoOutcome == [op |-> "none", ok |-> TRUE, id |-> NoFid]
InitFidOff ==
    /\ fid_id = NoFid
    /\ fid_bytes = NoBytes
    /\ fid_text = <<>>
    /\ fid_shown = FALSE
    /\ fid_result = NoOutcome

\* Nobody holds the RwLock of the Vfs and no call on it is under way.
Unlocked == [writer |-> "none", readers |-> {}]
InitLockOff ==
    /\ rwlock = Unlocked
    /\ active = {}

\* No reporter was started.
InitRepOff ==
    /\ rep_kind = "none"
    /\ channel = <<>>
    /\ handled = <<>>
    /\ running = FALSE
    /\ thread = "none"
    /\ ack = "none"
    /\ shutdown_rx = "None"
    /\ guard = "none"
    /\ next_id = 0
    /\ adding = {}
    /\ job_ids = <<>>
    /\ jobs = EmptyMap

\* resolve_unpack is not running.
InitUnpackOff ==
    /\ unpack_pc = "idle"
    /\ archive = <<>>
    /\ archive_size = 0
    /\ directory = {}
    /\ progress = <<>>

Init ==
    /\ InitClosureOff
    /\ InitFidOff
    /\ InitLockOff
    /\ InitRepOff
    /\ InitUnpackOff
    /\ regBlobs \in SUBSET BlobHashes
    /\ regRecipes \in SUBSET RecipeHashes
    /\ regBakes \in SUBSET BakedPairs
    /\ RegistryConsistent(regBlobs, regRecipes, regBakes)
    /\ InitRun
    /\ InitFanOff
    /\ InitProjOff
    /\ InitVfsOff

\* ------------------------------------------------------------- sync_bakes
\* sync_bakes is called; it suspends in recipe_references (line 30).  A run
\* is started once the tasks that the run before left behind have ended
\* (the CLI runs one sync per process).
Start(bs) ==
    /\ pc \in Terminal
    /\ detached = {}
    /\ entry = "sync_bakes"
    /\ prev' = IF pc = "idle" THEN "none" ELSE pc
    /\ repeat' = (pc # "idle" /\ bs = bakes)
    /\ bakes' = bs
    /\ pc' = "refs"
    /\ sync_references' = EmptyReferences
    /\ pending' = {}
    /\ inflight' = {}
    /\ num_new_blobs' = 0
    /\ num_new_recipes' = 0
    /\ num_new_bakes' = 0
    /\ new_recipes' = {}
    /\ error' = NoError
    /\ calls' = <<>>
    /\ store_reads' = {}
    /\ loaded_sent' = {}
    /\ UNCHANGED <<regVars, detached, fanVars, projRun, blobStore, vfsVars, closureVars,
                   repVars, unpackVars, fidVars, lockVars>>

\* The closure is collected; sync_recipe_references starts and queries
\* known_blobs (lines 30-41, 103-104).
RefsOk ==
    /\ pc = "refs"
    /\ sync_references' = recipe_references(EmptyReferences, SeedHashes(bakes))
    /\ calls' = Append(calls, Call("known_blobs", sync_references'.blobs, <<>>))
    /\ pc' = "known_blobs"
    /\ UNCHANGED <<regVars, bakes, pending, inflight, num_new_blobs, num_new_recipes,
                   num_new_bakes, new_recipes, error, detached, prev, repeat, fanVars,
                   projVars, vfsVars, closureVars, repVars, unpackVars, fidVars,
                   lockVars>>

\* As RefsFail, but known_blobs is queried before the error is returned.
RefsFailLate(h) ==
    /\ pc = "refs"
    /\ h \in recipe_references(EmptyReferences, SeedHashes(bakes)).recipes
    /\ calls' = Append(calls, Call("known_blobs", {}, <<>>))
    /\ error' = Call("recipe_references", {h}, <<>>)
    /\ pc' = "failed"
    /\ UNCHANGED <<regVars, bakes, sync_references, pending, inflight, num_new_blobs,
                   num_new_recipes, num_new_bakes, new_recipes, detached, prev, repeat,
                   fanVars, projVars, vfsVars, closureVars, repVars, unpackVars,
                   fidVars, lockVars>>
\* recipe_references does not find recipe h of the closure in the local
\* store and returns Err; `?` returns it from sync_bakes (line 30).
RefsFail(h) ==
    /\ pc = "refs"
    /\ h \in recipe_references(EmptyReferences, SeedHashes(bakes)).recipes
    /\ error' = Call("recipe_references", {h}, <<>>)
    /\ pc' = "failed"
    /\ UNCHANGED <<regVars, bakes, sync_references, pending, inflight, num_new_blobs,
                   num_new_recipes, num_new_bakes, new_recipes, calls, detached, prev,
                   repeat, fanVars, projVars, vfsVars, closureVars, repVars, unpackVars,
                   fidVars, lockVars>>

\* known_blobs answers; the novel blobs become the stream of the blob
\* fan-out (lines 104-112).
KnownBlobsOk ==
    /\ pc = "known_blobs"
    /\ LET all_blobs == sync_references.blobs
           known_blobs == KnownOf(all_blobs, regBlobs)
       IN /\ num_new_blobs' = NumNew(Cardinality(all_blobs), Cardinality(known_blobs))
          /\ pending' = {BlobTask(b) : b \in NewBlobs(all_blobs, known_blobs)}
    /\ pc' = "blobs"
    /\ UNCHANGED <<regVars, bakes, sync_references, inflight, num_new_recipes,
                   num_new_bakes, new_recipes, error, calls, detached, prev, repeat,
                   fanVars, projVars, vfsVars, closureVars, repVars, unpackVars,
                   fidVars, lockVars>>

\* try_for_each_concurrent takes the next item of the stream and the
\* item's future spawns its task (lines 61-64, 112-115).
Admit(t) ==
    /\ pc \in FanPhases
    /\ t \in pending
    /\ \A u \in pending : t.idx <= u.idx
    /\ CanAdmit(pc, Cardinality(inflight))
    /\ pending' = pending \ {t}
    /\ inflight' = inflight \cup {[t EXCEPT !.stage = "spawned"]}
    /\ UNCHANGED <<regVars, pc, bakes, sync_references, num_new_blobs, num_new_recipes,
                   num_new_bakes, new_recipes, error, calls, detached, prev, repeat,
                   fanVars, projVars, vfsVars, closureVars, repVars, unpackVars,
                   fidVars, lockVars>>

\* The bytes a loaded-blob task sends: the Blob store's file of the hash
\* (LoadedBytesFromStore) or the entry of loaded_blobs (LoadedBytes).
LoadedBytesFromStore(h) == BlobBytes(h)
LoadedBytes(h) == loaded_blobs[h]

\* blob::blob_path computes the path of the blob's file in the Blob store
\* (blob_path_saving: and saves the blob there when the file is missing).
blob_path_saving(h) == blobStore' = blobStore \cup {h}
blob_path(h) == blobStore' = blobStore

\* Number of save permits held by the tasks the sync spawned.
PermitsHeld ==
    Cardinality({t \in inflight : t.stage = "permit"})
        + Cardinality({d \in detached : d.stage = "permit"})

\* blob::get_save_blob_permit returns a permit of the semaphore when one is
\* free.
get_save_blob_permit == PermitsHeld < MaxPermits

\* A blob task calls send_blob after the block that held its permit (lines
\* 117-120); the other tasks call the registry at once.
ReadyToSend(t) == t.stage = IF t.op = "send_blob" THEN "permit" ELSE "spawned"

\* A spawned blob task is given a save permit (line 118).
TaskPermit(t) ==
    /\ pc \in FanPhases
    /\ t \in inflight
    /\ t.op = "send_blob"
    /\ t.stage = "spawned"
    /\ get_save_blob_permit
    /\ inflight' = (inflight \ {t}) \cup {[t EXCEPT !.stage = "permit"]}
    /\ UNCHANGED <<regVars, pc, bakes, sync_references, pending, num_new_blobs,
                   num_new_recipes, num_new_bakes, new_recipes, error, calls, detached,
                   prev, repeat, fanVars, projVars, vfsVars, closureVars, repVars,
                   unpackVars, fidVars, lockVars>>

\* A blob task resolves the blob path, drops its permit at the end of the
\* block and reads the file, which has to exist (lines 119-126); a
\* loaded-blob task holds its bytes (line 229); a bake task holds its hashes
\* (lines 62-63).
TaskReads(t) ==
    /\ IF t.op = "send_blob" THEN blob_path(t.hash) ELSE blobStore' = blobStore
    /\ t.op = "send_blob" => t.hash \in blobStore'
    /\ store_reads' = IF t.op = "send_blob" THEN store_reads \cup {t.hash}
                      ELSE store_reads
    /\ loaded_sent' = IF t.op = "send_loaded_blob"
                      THEN loaded_sent \cup {<<t.hash, LoadedBytes(t.hash)>>}
                      ELSE loaded_sent

\* A spawned task reaches its registry call: send_blob (lines 127-130,
\* 227-230) or create_bake (lines 66-69).
TaskSend(t) ==
    /\ pc \in FanPhases
    /\ t \in inflight
    /\ ReadyToSend(t)
    /\ TaskReads(t)
    /\ inflight' = (inflight \ {t}) \cup {[t EXCEPT !.stage = "sending"]}
    /\ calls' = Append(calls, TaskCall(t))
    /\ UNCHANGED <<regVars, pc, bakes, sync_references, pending, num_new_blobs,
                   num_new_recipes, num_new_bakes, new_recipes, error, detached, prev,
                   repeat, fanVars, projRun, vfsVars, closureVars, repVars, unpackVars,
                   fidVars, lockVars>>

\* The registry stores what the task sent.
Stored(t) ==
    /\ regBlobs' = IF t.op \in {"send_blob", "send_loaded_blob"}
                   THEN regBlobs \cup {t.hash} ELSE regBlobs
    /\ regBakes' = IF t.op = "create_bake" THEN regBakes \cup {t.pair} ELSE regBakes
    /\ UNCHANGED regRecipes

\* The task's call succeeds and the parent's JoinHandle resolves to Ok
\* (lines 73-74, 130-138).
TaskOk(t) ==
    /\ pc \in FanPhases
    /\ t \in inflight
    /\ t.stage = "sending"
    /\ Stored(t)
    /\ inflight' = inflight \ {t}
    /\ UNCHANGED <<pc, bakes, sync_references, pending, num_new_blobs, num_new_recipes,
                   num_new_bakes, new_recipes, error, calls, detached, prev, repeat,
                   fanVars, projVars, vfsVars, closureVars, repVars, unpackVars,
                   fidVars, lockVars>>

\* A task returns Err (path resolution, read or the registry call); `??`
\* hands it to try_for_each_concurrent, which returns it at once and drops
\* the stream and the other futures, i.e. their JoinHandles (lines 73-77,
\* 136-141).  The spawned tasks themselves keep running.  (TaskFailLogged:
\* the error is kept and the fan-out goes on with the other items.)
TaskFailLogged(t) ==
    /\ pc \in FanPhases
    /\ t \in inflight
    /\ t.op # "send_blob" => t.stage = "sending"
    /\ error' = TaskCall(t)
    /\ inflight' = inflight \ {t}
    /\ UNCHANGED <<regVars, pc, bakes, sync_references, pending, num_new_blobs,
                   num_new_recipes, num_new_bakes, new_recipes, calls, detached, prev,
                   repeat, fanVars, projVars, vfsVars, closureVars, repVars, unpackVars,
                   fidVars, lockVars>>
TaskFail(t) ==
    /\ pc \in FanPhases
    /\ t \in inflight
    /\ t.op # "send_blob" => t.stage = "sending"
    /\ pc' = "failed"
    /\ error' = TaskCall(t)
    /\ detached' = detached \cup Detach(inflight \ {t}, "failed")
    /\ inflight' = {}
    /\ UNCHANGED <<regVars, bakes, sync_references, pending, num_new_blobs,
                   num_new_recipes, num_new_bakes, new_recipes, calls, prev, repeat,
                   fanVars, projVars, vfsVars, closureVars, repVars, unpackVars,
                   fidVars, lockVars>>

\* The blob fan-out returned Ok; known_recipes is queried (lines 141-159).
BlobsDone ==
    /\ pc = "blobs"
    /\ FanOutFinished(pending, inflight)
    /\ calls' = Append(calls, Call("known_recipes", sync_references.recipes, <<>>))
    /\ pc' = "known_recipes"
    /\ UNCHANGED <<regVars, bakes, sync_references, pending, inflight, num_new_blobs,
                   num_new_recipes, num_new_bakes, new_recipes, error, detached, prev,
                   repeat, fanVars, projVars, vfsVars, closureVars, repVars, unpackVars,
                   fidVars, lockVars>>

\* As KnownRecipesOk, but create_recipes is skipped for an empty batch.
KnownRecipesOkSkipEmpty ==
    /\ pc = "known_recipes"
    /\ LET known_recipe_hashes == KnownOf(sync_references.recipes, regRecipes)
       IN new_recipes' = NewRecipes(sync_references, known_recipe_hashes)
    /\ IF new_recipes' = {}
       THEN /\ calls' = Append(calls, Call("known_bakes", {}, bakes))
            /\ pc' = "known_bakes"
       ELSE /\ calls' = Append(calls, Call("create_recipes", new_recipes', <<>>))
            /\ pc' = "create_recipes"
    /\ UNCHANGED <<regVars, bakes, sync_references, pending, inflight, num_new_blobs,
                   num_new_recipes, num_new_bakes, error, detached, prev, repeat,
                   fanVars, projVars, vfsVars, closureVars, repVars, unpackVars,
                   fidVars, lockVars>>

\* known_recipes answers; the novel recipes are handed to one
\* create_recipes call (lines 156-173).
KnownRecipesOk ==
    /\ pc = "known_recipes"
    /\ LET known_recipe_hashes == KnownOf(sync_references.recipes, regRecipes)
       IN new_recipes' = NewRecipes(sync_references, known_recipe_hashes)
    /\ calls' = Append(calls, Call("create_recipes", new_recipes', <<>>))
    /\ pc' = "create_recipes"
    /\ UNCHANGED <<regVars, bakes, sync_references, pending, inflight, num_new_blobs,
                   num_new_recipes, num_new_bakes, error, detached, prev, repeat,
                   fanVars, projVars, vfsVars, closureVars, repVars, unpackVars,
                   fidVars, lockVars>>

\* create_recipes succeeds, sync_recipe_references returns Ok and sync_bakes
\* queries known_bakes (lines 173-187, 41-53).
CreateRecipesOk ==
    /\ entry = "sync_bakes"
    /\ pc = "create_recipes"
    /\ regRecipes' = regRecipes \cup new_recipes
    /\ num_new_recipes' = Cardinality(new_recipes)
    /\ calls' = Append(calls, Call("known_bakes", {}, bakes))
    /\ pc' = "known_bakes"
    /\ UNCHANGED <<regBlobs, regBakes, bakes, sync_references, pending, inflight,
                   num_new_blobs, num_new_bakes, new_recipes, error, detached, prev,
                   repeat, fanVars, projVars, vfsVars, closureVars, repVars, unpackVars,
                   fidVars, lockVars>>

\* known_bakes answers; the novel pairs become the stream of the bake
\* fan-out (lines 53-61).
KnownBakesOk ==
    /\ pc = "known_bakes"
    /\ LET all_bakes == bakes
           known_bakes == KnownOf(Range(all_bakes), regBakes)
       IN /\ num_new_bakes' = NumNew(Len(all_bakes), Cardinality(known_bakes))
          /\ pending' = {BakeTask(all_bakes, i) : i \in NewBakes(all_bakes, known_bakes)}
    /\ pc' = "bakes"
    /\ UNCHANGED <<regVars, bakes, sync_references, inflight, num_new_blobs,
                   num_new_recipes, new_recipes, error, calls, detached, prev, repeat,
                   fanVars, projVars, vfsVars, closureVars, repVars, unpackVars,
                   fidVars, lockVars>>

\* The bake fan-out returned Ok; sync_bakes returns its counts (lines 77-90).
BakesDone ==
    /\ pc = "bakes"
    /\ FanOutFinished(pending, inflight)
    /\ pc' = "done"
    /\ UNCHANGED <<regVars, bakes, sync_references, pending, inflight, num_new_blobs,
                   num_new_recipes, num_new_bakes, new_recipes, error, calls, detached,
                   prev, repeat, fanVars, projVars, vfsVars, closureVars, repVars,
                   unpackVars, fidVars, lockVars>>

\* A request that is given up (error or dropped future) may or may not
\* have been served; only create_recipes changes the registry.
MaybeServed(applied) ==
    /\ regRecipes' = IF pc = "create_recipes" /\ applied
                     THEN regRecipes \cup new_recipes ELSE regRecipes
    /\ UNCHANGED <<regBlobs, regBakes>>

\* A registry call made by the run itself returns Err and `?` returns it
\* (lines 104, 159, 173, 53).
CallFail(applied) ==
    /\ pc \in {"known_blobs", "known_recipes", "create_recipes", "known_bakes"}
    /\ MaybeServed(applied)
    /\ error' = calls[Len(calls)]
    /\ pc' = "failed"
    /\ UNCHANGED <<bakes, sync_references, pending, inflight, num_new_blobs,
                   num_new_recipes, num_new_bakes, new_recipes, calls, detached, prev,
                   repeat, fanVars, projVars, vfsVars, closureVars, repVars, unpackVars,
                   fidVars, lockVars>>

\* The caller drops the sync future at an await.  The futures of the
\* fan-out are dropped with it; they own JoinHandles only.
Abandon(applied) ==
    /\ pc \notin Terminal
    /\ MaybeServed(applied)
    /\ pc' = "abandoned"
    /\ detached' = detached \cup Detach(inflight, "abandoned")
    /\ inflight' = {}
    /\ UNCHANGED <<bakes, sync_references, pending, num_new_blobs, num_new_recipes,
                   num_new_bakes, new_recipes, error, calls, prev, repeat, fanVars,
                   projVars, vfsVars, closureVars, repVars, unpackVars, fidVars,
                   lockVars>>

\* ------------------------------------------------------ detached tasks
\* A blob task whose JoinHandle was dropped is given a save permit.
DetachedPermit(d) ==
    /\ d \in detached
    /\ d.op = "send_blob"
    /\ d.stage = "spawned"
    /\ get_save_blob_permit
    /\ detached' = (detached \ {d}) \cup {[d EXCEPT !.stage = "permit"]}
    /\ UNCHANGED <<regVars, runVars, fanVars, projVars, vfsVars, closureVars, repVars,
                   unpackVars, fidVars, lockVars>>

\* A task whose JoinHandle was dropped goes on to its registry call.
DetachedSend(d) ==
    /\ d \in detached
    /\ ReadyToSend(d)
    /\ TaskReads(d)
    /\ detached' = (detached \ {d}) \cup {[d EXCEPT !.stage = "sending"]}
    /\ UNCHANGED <<regVars, runVars, fanVars, projRun, vfsVars, closureVars, repVars,
                   unpackVars, fidVars, lockVars>>

DetachedOk(d) ==
    /\ d \in detached
    /\ d.stage = "sending"
    /\ Stored(d)
    /\ detached' = detached \ {d}
    /\ UNCHANGED <<runVars, fanVars, projVars, vfsVars, closureVars, repVars,
                   unpackVars, fidVars, lockVars>>

\* The task ends without effect: its call fails, or the runtime shuts down.
DetachedStop(d) ==
    /\ d \in detached
    /\ detached' = detached \ {d}
    /\ UNCHANGED <<regVars, runVars, fanVars, projVars, vfsVars, closureVars, repVars,
                   unpackVars, fidVars, lockVars>>

Next ==
    \/ \E bs \in SeqsUpTo(BakedPairs, MaxBakes) : Start(bs)
    \/ RefsOk
    \/ \E h \in RecipeHashes : RefsFail(h)
    \/ KnownBlobsOk
    \/ \E t \in pending : Admit(t)
    \/ \E t \in inflight : TaskPermit(t)
    \/ \E t \in inflight : TaskSend(t)
    \/ \E t \in inflight : TaskOk(t)
    \/ \E t \in inflight : TaskFail(t)
    \/ BlobsDone
    \/ KnownRecipesOk
    \/ CreateRecipesOk
    \/ KnownBakesOk
    \/ BakesDone
    \/ \E applied \in BOOLEAN : CallFail(applied)
    \/ \E applied \in BOOLEAN : Abandon(applied)
    \/ \E d \in detached : DetachedPermit(d)
    \/ \E d \in detached : DetachedSend(d)
    \/ \E d \in detached : DetachedOk(d)
    \/ \E d \in detached : DetachedStop(d)

Spec == Init /\ [][Next]_vars

\* The value sync_bakes returns when it returns Ok.
Result == SyncBakesResults(num_new_bakes, num_new_blobs, num_new_recipes)

\* ------------------------------------------- any answer of the registry
\* What a registry may answer to known_blobs and known_bakes: any set of
\* hashes or pairs, asked for or not.
AnswerBlobs == SUBSET (BlobHashes \cup LoadedBlobHashes)
AnswerBakes == SUBSET (BakedPairs \cup {<<"A1", "R1">>})

\* `all.len() - known.len()` with known.len() above all.len(): a build with
\* overflow checks panics, one without them wraps around.
KnownBlobsAnswer(known_blobs) ==
    /\ pc = "known_blobs"
    /\ LET all_blobs == sync_references.blobs
       IN \/ /\ Cardinality(known_blobs) > Cardinality(all_blobs)
             /\ pc' = "panicked"
             /\ UNCHANGED <<num_new_blobs, pending>>
          \/ /\ num_new_blobs' = NumNew(Cardinality(all_blobs), Cardinality(known_blobs))
             /\ pending' = {BlobTask(b) : b \in NewBlobs(all_blobs, known_blobs)}
             /\ pc' = "blobs"
    /\ UNCHANGED <<regVars, bakes, sync_references, inflight, num_new_recipes,
                   num_new_bakes, new_recipes, error, calls, detached, prev, repeat,
                   fanVars, projVars, vfsVars, closureVars, repVars, unpackVars,
                   fidVars, lockVars>>

KnownBakesAnswer(known_bakes) ==
    /\ pc = "known_bakes"
    /\ LET all_bakes == bakes
       IN \/ /\ Cardinality(known_bakes) > Len(all_bakes)
             /\ pc' = "panicked"
             /\ UNCHANGED <<num_new_bakes, pending>>
          \/ /\ num_new_bakes' = NumNew(Len(all_bakes), Cardinality(known_bakes))
             /\ pending' = {BakeTask(all_bakes, i) : i \in NewBakes(all_bakes, known_bakes)}
             /\ pc' = "bakes"
    /\ UNCHANGED <<regVars, bakes, sync_references, inflight, num_new_blobs,
                   num_new_recipes, new_recipes, error, calls, detached, prev, repeat,
                   fanVars, projVars, vfsVars, closureVars, repVars, unpackVars,
                   fidVars, lockVars>>

\* One sync_bakes run, and the tasks it leaves behind, against an empty
\* registry that answers anything.
InitAnyAnswer == Init /\ regBlobs = {} /\ regRecipes = {} /\ regBakes = {}

NextAnyAnswer ==
    \/ (pc \in Terminal \ {"idle"} => detached # {}) /\ Next
    \/ \E known_blobs \in AnswerBlobs : KnownBlobsAnswer(known_blobs)
    \/ \E known_bakes \in AnswerBakes : KnownBakesAnswer(known_bakes)

SpecAnyAnswer == InitAnyAnswer /\ [][NextAnyAnswer]_vars

\* ------------------------------------------- one fan-out phase, counted
\* The same try_for_each_concurrent phase with its items counted instead of
\* named, so that more items than the limit can be queued.
InitFanOut ==
    /\ regBlobs = {}
    /\ regRecipes = {}
    /\ regBakes = {}
    /\ InitRun
    /\ fanPhase \in FanPhases
    /\ fanStatus = "running"
    /\ fanQueued \in 0..MaxItems
    /\ fanInFlight = 0
    /\ fanDone = 0
    /\ InitProjOff
    /\ InitVfsOff
    /\ InitClosureOff
    /\ InitFidOff
    /\ InitLockOff
    /\ InitRepOff
    /\ InitUnpackOff

\* The next item is taken off the stream and its task is spawned.
FanAdmit ==
    /\ fanStatus = "running"
    /\ fanQueued > 0
    /\ CanAdmit(fanPhase, fanInFlight)
    /\ fanQueued' = fanQueued - 1
    /\ fanInFlight' = fanInFlight + 1
    /\ UNCHANGED <<regVars, runVars, detached, fanPhase, fanStatus, fanDone, projVars,
                   vfsVars, closureVars, repVars, unpackVars, fidVars, lockVars>>

\* A spawned task ends with Ok; after the phase ended it is a detached task.
FanTaskOk ==
    /\ fanStatus \in {"running", "failed"}
    /\ fanInFlight > 0
    /\ fanInFlight' = fanInFlight - 1
    /\ fanDone' = fanDone + 1
    /\ UNCHANGED <<regVars, runVars, detached, fanPhase, fanStatus, fanQueued, projVars,
                   vfsVars, closureVars, repVars, unpackVars, fidVars, lockVars>>

\* A spawned task ends with Err: the phase returns it and admits no more.
FanTaskFail ==
    /\ fanStatus = "running"
    /\ fanInFlight > 0
    /\ fanInFlight' = fanInFlight - 1
    /\ fanStatus' = "failed"
    /\ UNCHANGED <<regVars, runVars, detached, fanPhase, fanQueued, fanDone, projVars,
                   vfsVars, closureVars, repVars, unpackVars, fidVars, lockVars>>

\* The stream is exhausted and every future completed: the phase returns Ok.
FanFinish ==
    /\ fanStatus = "running"
    /\ fanQueued = 0
    /\ fanInFlight = 0
    /\ fanStatus' = "finished"
    /\ UNCHANGED <<regVars, runVars, detached, fanPhase, fanQueued, fanInFlight,
                   fanDone, projVars, vfsVars, closureVars, repVars, unpackVars,
                   fidVars, lockVars>>

NextFanOut ==
    \/ FanAdmit
    \/ FanTaskOk
    \/ FanTaskFail
    \/ FanFinish

SpecFanOut == InitFanOut /\ [][NextFanOut]_vars

\* ------------------------------------------------ sync_project_references
\* The references handed to sync_project_references.
ProjectRecipes ==
    {recipe_references(EmptyReferences, s) : s \in {{}, {"R2", "A1"}}}
LoadedBlobs == UNION {[hs -> Bytes] : hs \in SUBSET LoadedBlobHashes}

InitProject ==
    /\ regBlobs \in SUBSET (BlobHashes \cup LoadedBlobHashes)
    /\ regRecipes \in SUBSET {"R2"}
    /\ regBakes = {}
    /\ RegistryConsistent(regBlobs, regRecipes, regBakes)
    /\ InitRun
    /\ InitFanOff
    /\ InitVfsOff
    /\ InitClosureOff
    /\ InitFidOff
    /\ InitLockOff
    /\ InitRepOff
    /\ InitUnpackOff
    /\ entry = "sync_project_references"
    /\ loaded_blobs = EmptyMap
    /\ projects = {}
    /\ new_projects = {}
    /\ regProjects \in SUBSET {"P1"}
    /\ blobStore \in {BlobHashes, BlobHashes \ {"B1"}}
    /\ store_reads = {}
    /\ loaded_sent = {}

\* sync_project_references is called; sync_recipe_references starts with
\* the recipes of the references and queries known_blobs (lines 203,
\* 103-104).
StartProject(refs, lb, ps) ==
    /\ pc = "idle"
    /\ entry = "sync_project_references"
    /\ sync_references' = refs
    /\ loaded_blobs' = lb
    /\ projects' = ps
    /\ calls' = Append(calls, Call("known_blobs", refs.blobs, <<>>))
    /\ pc' = "known_blobs"
    /\ UNCHANGED <<regVars, bakes, pending, inflight, num_new_blobs, num_new_recipes,
                   num_new_bakes, new_recipes, error, detached, prev, repeat, fanVars,
                   entry, new_projects, regProjects, blobStore, store_reads,
                   loaded_sent, vfsVars, closureVars, repVars, unpackVars, fidVars,
                   lockVars>>

\* create_recipes succeeds, sync_recipe_references returns Ok and
\* known_blobs is queried for the loaded blobs (lines 173-187, 203-214).
CreateRecipesOkProject ==
    /\ entry = "sync_project_references"
    /\ pc = "create_recipes"
    /\ regRecipes' = regRecipes \cup new_recipes
    /\ num_new_recipes' = Cardinality(new_recipes)
    /\ calls' = Append(calls, Call("known_blobs", DOMAIN loaded_blobs, <<>>))
    /\ pc' = "known_loaded_blobs"
    /\ UNCHANGED <<regBlobs, regBakes, bakes, sync_references, pending, inflight,
                   num_new_blobs, num_new_bakes, new_recipes, error, detached, prev,
                   repeat, fanVars, projVars, vfsVars, closureVars, repVars, unpackVars,
                   fidVars, lockVars>>

\* known_blobs answers; the novel loaded blobs become the stream of the
\* loaded-blob fan-out (lines 214-225).
KnownLoadedBlobsOk ==
    /\ pc = "known_loaded_blobs"
    /\ LET all_blobs == DOMAIN loaded_blobs
           known_blobs == KnownOf(all_blobs, regBlobs)
       IN pending' = {LoadedBlobTask(b) : b \in NewBlobs(all_blobs, known_blobs)}
    /\ pc' = "loaded_blobs"
    /\ UNCHANGED <<regVars, bakes, sync_references, inflight, num_new_blobs,
                   num_new_recipes, num_new_bakes, new_recipes, error, calls, detached,
                   prev, repeat, fanVars, projVars, vfsVars, closureVars, repVars,
                   unpackVars, fidVars, lockVars>>

\* The loaded-blob fan-out returned Ok; known_projects is queried (lines
\* 244-262).
LoadedBlobsDone ==
    /\ pc = "loaded_blobs"
    /\ FanOutFinished(pending, inflight)
    /\ calls' = Append(calls, Call("known_projects", projects, <<>>))
    /\ pc' = "known_projects"
    /\ UNCHANGED <<regVars, bakes, sync_references, pending, inflight, num_new_blobs,
                   num_new_recipes, num_new_bakes, new_recipes, error, detached, prev,
                   repeat, fanVars, projVars, vfsVars, closureVars, repVars, unpackVars,
                   fidVars, lockVars>>

\* known_projects answers; the projects it did not return are handed to one
\* create_projects call (lines 259-271).
KnownProjectsOk ==
    /\ pc = "known_projects"
    /\ LET known_projects == KnownOf(projects, regProjects)
       IN new_projects' = NewProjects(projects, known_projects)
    /\ calls' = Append(calls, Call("create_projects", new_projects', <<>>))
    /\ pc' = "create_projects"
    /\ UNCHANGED <<regVars, bakes, sync_references, pending, inflight, num_new_blobs,
                   num_new_recipes, num_new_bakes, new_recipes, error, detached, prev,
                   repeat, fanVars, entry, loaded_blobs, projects, regProjects,
                   blobStore, store_reads, loaded_sent, vfsVars, closureVars, repVars,
                   unpackVars, fidVars, lockVars>>

\* create_projects succeeds and sync_project_references returns Ok(())
\* (lines 271-282).
CreateProjectsOk ==
    /\ pc = "create_projects"
    /\ regProjects' = regProjects \cup new_projects
    /\ pc' = "done"
    /\ UNCHANGED <<regVars, bakes, sync_references, pending, inflight, num_new_blobs,
                   num_new_recipes, num_new_bakes, new_recipes, error, calls, detached,
                   prev, repeat, fanVars, entry, loaded_blobs, projects, new_projects,
                   blobStore, store_reads, loaded_sent, vfsVars, closureVars, repVars,
                   unpackVars, fidVars, lockVars>>

\* A request of the project steps that is given up may or may not have been
\* served; only create_projects changes the registry.
MaybeServedProject(applied) ==
    regProjects' = IF pc = "create_projects" /\ applied
                   THEN regProjects \cup new_projects ELSE regProjects

\* known_blobs, known_projects or create_projects returns Err and `?`
\* returns it (lines 214, 262, 271).
ProjectCallFail(applied) ==
    /\ pc \in {"known_loaded_blobs", "known_projects", "create_projects"}
    /\ MaybeServedProject(applied)
    /\ error' = calls[Len(calls)]
    /\ pc' = "failed"
    /\ UNCHANGED <<regVars, bakes, sync_references, pending, inflight, num_new_blobs,
                   num_new_recipes, num_new_bakes, new_recipes, calls, detached, prev,
                   repeat, fanVars, entry, loaded_blobs, projects, new_projects,
                   blobStore, store_reads, loaded_sent, vfsVars, closureVars, repVars,
                   unpackVars, fidVars, lockVars>>

\* The caller drops the future while create_projects is served.
CreateProjectsDropped ==
    /\ pc = "create_projects"
    /\ MaybeServedProject(TRUE)
    /\ pc' = "abandoned"
    /\ UNCHANGED <<regVars, bakes, sync_references, pending, inflight, num_new_blobs,
                   num_new_recipes, num_new_bakes, new_recipes, error, calls, detached,
                   prev, repeat, fanVars, entry, loaded_blobs, projects, new_projects,
                   blobStore, store_reads, loaded_sent, vfsVars, closureVars, repVars,
                   unpackVars, fidVars, lockVars>>

NextProject ==
    \/ \E refs \in ProjectRecipes, lb \in LoadedBlobs, ps \in SUBSET ProjectHashes :
          StartProject(refs, lb, ps)
    \/ KnownBlobsOk
    \/ \E t \in pending : Admit(t)
    \/ \E t \in inflight : TaskPermit(t)
    \/ \E t \in inflight : TaskSend(t)
    \/ \E t \in inflight : TaskOk(t)
    \/ \E t \in inflight : TaskFail(t)
    \/ BlobsDone
    \/ KnownRecipesOk
    \/ CreateRecipesOkProject
    \/ KnownLoadedBlobsOk
    \/ LoadedBlobsDone
    \/ KnownProjectsOk
    \/ CreateProjectsOk
    \/ \E applied \in BOOLEAN : CallFail(applied)
    \/ \E applied \in BOOLEAN : ProjectCallFail(applied)
    \/ \E applied \in BOOLEAN : Abandon(applied)
    \/ CreateProjectsDropped
    \/ \E d \in detached : DetachedPermit(d)
    \/ \E d \in detached : DetachedSend(d)
    \/ \E d \in detached : DetachedOk(d)
    \/ \E d \in detached : DetachedStop(d)

SpecProject == InitProject /\ [][NextProject]_vars

\* A run of sync_bakes or of sync_project_references.
SpecSync == (Init \/ InitProject) /\ [][Next \/ NextProject]_vars

\* ------------------------------------------ recipe_references, stepwise
\* The closure computation of section 4.D, one popped hash per step.  The
\* work queue is a set: the hashes are popped in any order.
InitClosure ==
    /\ regBlobs = {}
    /\ regRecipes = {}
    /\ regBakes = {}
    /\ InitRun
    /\ InitFanOff
    /\ InitProjOff
    /\ InitVfsOff
    /\ InitFidOff
    /\ InitLockOff
    /\ InitRepOff
    /\ InitUnpackOff
    /\ seeds \in SUBSET RecipeHashes
    /\ unvisited = seeds

\* A recipe is fetched from the local store and walked.
Walk(h) == [recipes |-> {h}, embedded |-> ReferencedRecipes(h), blobs |-> ReferencedBlobs(h)]

\* As ClosureVisit, but the embedded recipe hashes are not enqueued.
ClosureVisitShallow(h) ==
    /\ error = NoError
    /\ h \in unvisited
    /\ h \notin sync_references.recipes
    /\ sync_references' = [recipes |-> sync_references.recipes \cup Walk(h).recipes,
                           blobs |-> sync_references.blobs \cup Walk(h).blobs]
    /\ unvisited' = unvisited \ {h}
    /\ UNCHANGED <<regVars, pc, bakes, pending, inflight, num_new_blobs,
                   num_new_recipes, num_new_bakes, new_recipes, error, calls, detached,
                   prev, repeat, fanVars, projVars, vfsVars, repVars, unpackVars, seeds,
                   fidVars, lockVars>>
\* Steps 2-4: a popped hash that is not yet in references.recipes is
\* fetched; its embedded recipe hashes are enqueued, its blobs and the
\* recipe itself are inserted.
ClosureVisit(h) ==
    /\ error = NoError
    /\ h \in unvisited
    /\ h \notin sync_references.recipes
    /\ sync_references' = [recipes |-> sync_references.recipes \cup Walk(h).recipes,
                           blobs |-> sync_references.blobs \cup Walk(h).blobs]
    /\ unvisited' = (unvisited \ {h}) \cup Walk(h).embedded
    /\ UNCHANGED <<regVars, pc, bakes, pending, inflight, num_new_blobs,
                   num_new_recipes, num_new_bakes, new_recipes, error, calls, detached,
                   prev, repeat, fanVars, projVars, vfsVars, repVars, unpackVars, seeds,
                   fidVars, lockVars>>

\* Step 2: a popped hash that is already in references.recipes is skipped.
ClosureSkip(h) ==
    /\ error = NoError
    /\ h \in unvisited
    /\ h \in sync_references.recipes
    /\ unvisited' = unvisited \ {h}
    /\ UNCHANGED <<regVars, runVars, detached, fanVars, projVars, vfsVars, repVars,
                   unpackVars, seeds, fidVars, lockVars>>

\* Step 2: the popped hash is not found in the local store.
ClosureMissing(h) ==
    /\ error = NoError
    /\ h \in unvisited
    /\ h \notin sync_references.recipes
    /\ error' = Call("recipe_references", {h}, <<>>)
    /\ UNCHANGED <<regVars, pc, bakes, sync_references, pending, inflight,
                   num_new_blobs, num_new_recipes, num_new_bakes, new_recipes, calls,
                   detached, prev, repeat, fanVars, projVars, vfsVars, closureVars,
                   repVars, unpackVars, fidVars, lockVars>>

NextClosure ==
    \/ \E h \in RecipeHashes : ClosureVisit(h)
    \/ \E h \in RecipeHashes : ClosureSkip(h)
    \/ \E h \in RecipeHashes : ClosureMissing(h)

SpecClosure == InitClosure /\ [][NextClosure]_vars

\* The queue has drained: sync_references is the result.
ClosureReturned == error = NoError /\ unvisited = {}

\* ------------------------------------------------------------------ Vfs
\* crates/brioche/src/vfs.rs.  The calls of SpecVfs do not overlap: a call
\* is made when no load is suspended in its disk read.
MaxUlids == 3      \* most Ulids generated by loads

\* Paths as callers give them and as logical_path normalises them.
RawPaths == {"/a", "/d/../a", "/b"}
logical_path(p) == IF p = "/d/../a" THEN "/a" ELSE p
LogicalPaths == {logical_path(p) : p \in RawPaths}

\* File contents, their BLAKE3 hashes (no collision), and the absent file.
FileBytes == {"x", "y"}
Blake3(b) == CASE b = "x" -> "hx" [] b = "y" -> "hy"
NoFile == "<no file>"

\* Ulid::new(): the n-th Ulid generated.  "UX" is a Ulid that is never
\* generated (a caller parsed it from a string).
UlidOf(n) == <<"U1", "U2", "U3", "U4", "U5">>[n]
Callers == {"c1", "c2"}
UpdateIds ==
    {FileId("Hash", Blake3(b)) : b \in FileBytes}
        \cup {FileId("Mutable", u) : u \in {"U1", "U2", "UX"}}

\* HashMap::insert.
Put(map, k, v) == [x \in DOMAIN map \cup {k} |-> IF x = k THEN v ELSE map[x]]

InitVfs ==
    /\ regBlobs = {}
    /\ regRecipes = {}
    /\ regBakes = {}
    /\ InitRun
    /\ InitFanOff
    /\ InitProjOff
    /\ InitClosureOff
    /\ InitFidOff
    /\ InitLockOff
    /\ InitRepOff
    /\ InitUnpackOff
    /\ vfs_mutable \in BOOLEAN
    /\ contents = EmptyMap
    /\ locations_to_ids = EmptyMap
    /\ ids_to_locations = EmptyMap
    /\ poisoned = FALSE
    /\ disk \in [LogicalPaths -> FileBytes \cup {NoFile}]
    /\ loads = {}
    /\ ulids = 0
    /\ last = NoReturn

\* The file id a load picks for the bytes it read.  NewFileIdOfFirstBytes:
\* the hash is that of one fixed content.
NewFileIdOfFirstBytes(bytes) ==
    IF vfs_mutable THEN FileId("Mutable", UlidOf(ulids + 1)) ELSE FileId("Hash", Blake3("x"))
NewFileId(bytes) ==
    IF vfs_mutable THEN FileId("Mutable", UlidOf(ulids + 1))
    ELSE FileId("Hash", Blake3(bytes))

\* The check of `ensure!(matches!(file_id, FileId::Mutable(_)))`
\* (EnsureAnyId: no check).
EnsureAnyId(id) == TRUE
EnsureMutable(id) == id.kind = "Mutable"

\* `contents.insert(file_id, contents)` of update (UpdateContentsKeepOld:
\* an existing entry is kept).
UpdateContentsKeepOld(id, bytes) ==
    IF id \in DOMAIN contents THEN contents ELSE Put(contents, id, bytes)
UpdateContents(id, bytes) == Put(contents, id, bytes)

\* `ids_to_locations.entry(file_id).or_default().push(path)` of load
\* (SetLocation: the list is replaced by the one path).
SetLocation(id, path) == Put(ids_to_locations, id, <<path>>)
PushLocation(id, path) ==
    LET locations == IF id \in DOMAIN ids_to_locations THEN ids_to_locations[id] ELSE <<>>
    IN Put(ids_to_locations, id, Append(locations, path))

\* What load_cached(p) returns.
LoadCachedResult(p) ==
    LET path == logical_path(p)
    IN IF poisoned THEN Return("load_cached", "err", NoId, NoBytes, path)
       ELSE IF path \notin DOMAIN locations_to_ids
            THEN Return("load_cached", "ok", NoId, NoBytes, path)
            ELSE LET file_id == locations_to_ids[path]
                 IN Return("load_cached", "ok", file_id, contents[file_id], path)

LoadCached(p) ==
    /\ last' = LoadCachedResult(p)
    /\ UNCHANGED <<regVars, runVars, detached, fanVars, projVars, closureVars, repVars,
                   unpackVars, fidVars, lockVars, vfs_mutable, vfsTables, poisoned,
                   disk, loads, ulids>>

Read(id) ==
    /\ last' = IF poisoned THEN Return("read", "err", id, NoBytes, "")
               ELSE IF id \in DOMAIN contents
                    THEN Return("read", "ok", id, contents[id], "")
                    ELSE Return("read", "ok", id, NoBytes, "")
    /\ UNCHANGED <<regVars, runVars, detached, fanVars, projVars, closureVars, repVars,
                   unpackVars, fidVars, lockVars, vfs_mutable, vfsTables, poisoned,
                   disk, loads, ulids>>

\* As LoadHit, but a cached path is read from the disk again.
LoadHitRefresh(p) ==
    /\ LoadCachedResult(p).res = "err" \/ LoadCachedResult(p).id # NoId
    /\ last' = IF LoadCachedResult(p).res = "ok" /\ disk[logical_path(p)] # NoFile
               THEN [LoadCachedResult(p) EXCEPT !.op = "load",
                                                !.bytes = disk[logical_path(p)]]
               ELSE [LoadCachedResult(p) EXCEPT !.op = "load"]
    /\ UNCHANGED <<regVars, runVars, detached, fanVars, projVars, closureVars, repVars,
                   unpackVars, fidVars, lockVars, vfs_mutable, vfsTables, poisoned,
                   disk, loads, ulids>>
\* load: the path is cached, or load_cached fails; load returns at once
\* (lines 31-37).
LoadHit(p) ==
    /\ LoadCachedResult(p).res = "err" \/ LoadCachedResult(p).id # NoId
    /\ last' = [LoadCachedResult(p) EXCEPT !.op = "load"]
    /\ UNCHANGED <<regVars, runVars, detached, fanVars, projVars, closureVars, repVars,
                   unpackVars, fidVars, lockVars, vfs_mutable, vfsTables, poisoned,
                   disk, loads, ulids>>

\* load: the path is not cached and the file is read (lines 34-42).
LoadMiss(c, p) ==
    /\ \A l \in loads : l.caller # c
    /\ vfs_mutable => ulids + Cardinality(loads) < MaxUlids
    /\ LoadCachedResult(p).res = "ok"
    /\ LoadCachedResult(p).id = NoId
    /\ disk[logical_path(p)] # NoFile
    /\ loads' = loads \cup
                    {[caller |-> c, path |-> logical_path(p), bytes |-> disk[logical_path(p)]]}
    /\ UNCHANGED <<regVars, runVars, detached, fanVars, projVars, closureVars, repVars,
                   unpackVars, fidVars, lockVars, vfs_mutable, vfsTables, poisoned,
                   disk, ulids, last>>

\* load: the path is not cached and the file cannot be read (lines 39-41).
LoadReadFail(p) ==
    /\ LoadCachedResult(p).res = "ok"
    /\ LoadCachedResult(p).id = NoId
    /\ disk[logical_path(p)] = NoFile
    /\ last' = Return("load", "err", NoId, NoBytes, logical_path(p))
    /\ UNCHANGED <<regVars, runVars, detached, fanVars, projVars, closureVars, repVars,
                   unpackVars, fidVars, lockVars, vfs_mutable, vfsTables, poisoned,
                   disk, loads, ulids>>

\* load: the file id is picked, the write lock is taken and the entry is
\* inserted into the three tables (lines 44-64).
LoadInsert(l) ==
    /\ l \in loads
    /\ loads' = loads \ {l}
    /\ ulids' = IF vfs_mutable THEN ulids + 1 ELSE ulids
    /\ IF poisoned
       THEN /\ last' = Return("load", "err", NoId, NoBytes, l.path)
            /\ UNCHANGED vfsTables
       ELSE LET file_id == NewFileId(l.bytes)
            IN /\ contents' = Put(contents, file_id, l.bytes)
               /\ locations_to_ids' = Put(locations_to_ids, l.path, file_id)
               /\ ids_to_locations' = PushLocation(file_id, l.path)
               /\ last' = Return("load", "ok", file_id, l.bytes, l.path)
    /\ UNCHANGED <<regVars, runVars, detached, fanVars, projVars, closureVars, repVars,
                   unpackVars, fidVars, lockVars, vfs_mutable, poisoned, disk>>

\* update (lines 67-85).  The id is checked before the lock is taken; the
\* entry of contents is replaced; `get_mut(&file_id).unwrap()` panics for an
\* id without locations while the write guard is held, which poisons the
\* lock.
Update(id, bytes) ==
    /\ IF ~EnsureMutable(id) \/ poisoned
       THEN /\ last' = Return("update", "err", id, bytes, "")
            /\ UNCHANGED <<contents, poisoned>>
       ELSE /\ contents' = UpdateContents(id, bytes)
            /\ IF id \in DOMAIN ids_to_locations
               THEN /\ last' = Return("update", "ok", id, bytes, "")
                    /\ UNCHANGED poisoned
               ELSE /\ last' = Return("update", "panic", id, bytes, "")
                    /\ poisoned' = TRUE
    /\ UNCHANGED <<regVars, runVars, detached, fanVars, projVars, closureVars, repVars,
                   unpackVars, fidVars, lockVars, vfs_mutable, locations_to_ids,
                   ids_to_locations, disk, loads, ulids>>

\* Another program writes or removes a file.
DiskWrite(path, bytes) ==
    /\ disk[path] # bytes
    /\ disk' = [disk EXCEPT ![path] = bytes]
    /\ UNCHANGED <<regVars, runVars, detached, fanVars, projVars, closureVars, repVars,
                   unpackVars, fidVars, lockVars, vfs_mutable, vfsTables, poisoned,
                   loads, ulids, last>>

\* A call starts when no other call is in progress.
NextVfs ==
    \/ loads = {} /\ \E p \in RawPaths : LoadCached(p)
    \/ loads = {} /\ \E id \in UpdateIds : Read(id)
    \/ loads = {} /\ \E p \in RawPaths : LoadHit(p)
    \/ loads = {} /\ \E c \in Callers, p \in RawPaths : LoadMiss(c, p)
    \/ loads = {} /\ \E p \in RawPaths : LoadReadFail(p)
    \/ \E l \in loads : LoadInsert(l)
    \/ loads = {} /\ \E id \in UpdateIds, bytes \in FileBytes : Update(id, bytes)
    \/ \E path \in LogicalPaths, bytes \in FileBytes \cup {NoFile} : DiskWrite(path, bytes)

SpecVfs == InitVfs /\ [][NextVfs]_vars

\* ------------------------------------------------- Vfs, overlapping calls
\* The calls of SpecVfsConc overlap: two callers are inside the Vfs at the
\* same time, each step of a call is a step of its own, and a call waits
\* where the RwLock makes it wait.

\* `self.inner.read()` returns a guard unless a writer holds the lock
\* (CanReadAnyTime: always); `self.inner.write()` returns one when nobody
\* holds it.
CanReadAnyTime == TRUE
CanRead == rwlock.writer = "none"
CanWrite == rwlock.writer = "none" /\ rwlock.readers = {}

\* The guard of caller c is dropped.
Release(c) ==
    [writer |-> IF rwlock.writer = c THEN "none" ELSE rwlock.writer,
     readers |-> rwlock.readers \ {c}]

\* A caller makes one call at a time.
Busy(c) == (\E a \in active : a.caller = c) \/ (\E l \in loads : l.caller = c)

\* A call under way, and the entry of a HashMap while insert replaces it:
\* neither the old nor the new value.
ActiveCall(c, op, path, id, bytes, stage) ==
    [caller |-> c, op |-> op, path |-> path, id |-> id, bytes |-> bytes, stage |-> stage]
Torn == "<torn>"

\* load_cached takes the read lock (lines 90-93); a poisoned lock is an Err.
CachedLock(c, p) ==
    /\ ~Busy(c)
    /\ IF poisoned
       THEN /\ last' = Return("load_cached", "err", NoId, NoBytes, logical_path(p))
            /\ UNCHANGED lockVars
       ELSE /\ CanRead
            /\ rwlock' = [rwlock EXCEPT !.readers = @ \cup {c}]
            /\ active' = active \cup
                   {ActiveCall(c, "load_cached", logical_path(p), NoId, NoBytes, "locked")}
            /\ UNCHANGED last
    /\ UNCHANGED <<regVars, runVars, detached, fanVars, projVars, closureVars, repVars,
                   unpackVars, fidVars, vfs_mutable, vfsTables, poisoned, disk, loads,
                   ulids>>

\* load_cached looks the path up; without an entry it returns None (lines
\* 94-96).
CachedLookup(a) ==
    /\ a \in active
    /\ a.op = "load_cached"
    /\ a.stage = "locked"
    /\ IF a.path \in DOMAIN locations_to_ids
       THEN /\ active' = (active \ {a}) \cup
                   {[a EXCEPT !.id = locations_to_ids[a.path], !.stage = "found"]}
            /\ UNCHANGED <<rwlock, last>>
       ELSE /\ active' = active \ {a}
            /\ rwlock' = Release(a.caller)
            /\ last' = Return("load_cached", "ok", NoId, NoBytes, a.path)
    /\ UNCHANGED <<regVars, runVars, detached, fanVars, projVars, closureVars, repVars,
                   unpackVars, fidVars, vfs_mutable, vfsTables, poisoned, disk, loads,
                   ulids>>

\* load_cached reads the contents of the id it found and returns (lines
\* 98-99).
CachedReturn(a) ==
    /\ a \in active
    /\ a.op = "load_cached"
    /\ a.stage = "found"
    /\ active' = active \ {a}
    /\ rwlock' = Release(a.caller)
    /\ last' = Return("load_cached", "ok", a.id, contents[a.id], a.path)
    /\ UNCHANGED <<regVars, runVars, detached, fanVars, projVars, closureVars, repVars,
                   unpackVars, fidVars, vfs_mutable, vfsTables, poisoned, disk, loads,
                   ulids>>

\* read takes the read lock (lines 103-106).
ReadLock(c, id) ==
    /\ ~Busy(c)
    /\ IF poisoned
       THEN /\ last' = Return("read", "err", id, NoBytes, "")
            /\ UNCHANGED lockVars
       ELSE /\ CanRead
            /\ rwlock' = [rwlock EXCEPT !.readers = @ \cup {c}]
            /\ active' = active \cup {ActiveCall(c, "read", "", id, NoBytes, "locked")}
            /\ UNCHANGED last
    /\ UNCHANGED <<regVars, runVars, detached, fanVars, projVars, closureVars, repVars,
                   unpackVars, fidVars, vfs_mutable, vfsTables, poisoned, disk, loads,
                   ulids>>

\* read returns the contents of the id, if any (line 107).
ReadReturn(a) ==
    /\ a \in active
    /\ a.op = "read"
    /\ active' = active \ {a}
    /\ rwlock' = Release(a.caller)
    /\ last' = IF a.id \in DOMAIN contents
               THEN Return("read", "ok", a.id, contents[a.id], "")
               ELSE Return("read", "ok", a.id, NoBytes, "")
    /\ UNCHANGED <<regVars, runVars, detached, fanVars, projVars, closureVars, repVars,
                   unpackVars, fidVars, vfs_mutable, vfsTables, poisoned, disk, loads,
                   ulids>>

\* update checks the id and takes the write lock (lines 68-75).
UpdateLock(c, id, bytes) ==
    /\ ~Busy(c)
    /\ IF ~EnsureMutable(id) \/ poisoned
       THEN /\ last' = Return("update", "err", id, bytes, "")
            /\ UNCHANGED lockVars
       ELSE /\ CanWrite
            /\ rwlock' = [rwlock EXCEPT !.writer = c]
            /\ active' = active \cup {ActiveCall(c, "update", "", id, bytes, "locked")}
            /\ UNCHANGED last
    /\ UNCHANGED <<regVars, runVars, detached, fanVars, projVars, closureVars, repVars,
                   unpackVars, fidVars, vfs_mutable, vfsTables, poisoned, disk, loads,
                   ulids>>

\* `vfs.contents.insert(file_id, contents)` begins (line 76).
UpdateWrite(a) ==
    /\ a \in active
    /\ a.op = "update"
    /\ a.stage = "locked"
    /\ contents' = Put(contents, a.id, Torn)
    /\ active' = (active \ {a}) \cup {[a EXCEPT !.stage = "writing"]}
    /\ UNCHANGED <<regVars, runVars, detached, fanVars, projVars, closureVars, repVars,
                   unpackVars, fidVars, vfs_mutable, locations_to_ids, ids_to_locations,
                   poisoned, disk, loads, ulids, last, rwlock>>

\* The insert ends (line 76).
UpdateStore(a) ==
    /\ a \in active
    /\ a.op = "update"
    /\ a.stage = "writing"
    /\ contents' = UpdateContents(a.id, a.bytes)
    /\ active' = (active \ {a}) \cup {[a EXCEPT !.stage = "written"]}
    /\ UNCHANGED <<regVars, runVars, detached, fanVars, projVars, closureVars, repVars,
                   unpackVars, fidVars, vfs_mutable, locations_to_ids, ids_to_locations,
                   poisoned, disk, loads, ulids, last, rwlock>>

\* update looks up the locations of the id and returns, or panics with the
\* guard held (lines 78-84).
UpdateFinish(a) ==
    /\ a \in active
    /\ a.op = "update"
    /\ a.stage = "written"
    /\ active' = active \ {a}
    /\ rwlock' = Release(a.caller)
    /\ IF a.id \in DOMAIN ids_to_locations
       THEN /\ last' = Return("update", "ok", a.id, a.bytes, "")
            /\ UNCHANGED poisoned
       ELSE /\ last' = Return("update", "panic", a.id, a.bytes, "")
            /\ poisoned' = TRUE
    /\ UNCHANGED <<regVars, runVars, detached, fanVars, projVars, closureVars, repVars,
                   unpackVars, fidVars, vfs_mutable, vfsTables, disk, loads, ulids>>

\* The steps of load, each under the lock it takes.
NextVfsConc ==
    \/ \E c \in Callers, p \in RawPaths : CachedLock(c, p)
    \/ \E a \in active : CachedLookup(a)
    \/ \E a \in active : CachedReturn(a)
    \/ \E c \in Callers, id \in UpdateIds : ReadLock(c, id)
    \/ \E a \in active : ReadReturn(a)
    \/ \E c \in Callers, id \in UpdateIds, bytes \in FileBytes : UpdateLock(c, id, bytes)
    \/ \E a \in active : UpdateWrite(a)
    \/ \E a \in active : UpdateStore(a)
    \/ \E a \in active : UpdateFinish(a)
    \/ \E p \in RawPaths : (poisoned \/ CanRead) /\ LoadHit(p)
    \/ \E c \in Callers, p \in RawPaths : ~Busy(c) /\ CanRead /\ LoadMiss(c, p)
    \/ \E p \in RawPaths : CanRead /\ LoadReadFail(p)
    \/ \E l \in loads : (poisoned \/ CanWrite) /\ LoadInsert(l)

\* The files stay as they are while the calls overlap: one file to load
\* under two names, and another that may be missing.
InitVfsConc ==
    /\ InitVfs
    /\ disk["/a"] = "x"
    /\ disk["/b"] \in {"y", NoFile}

SpecVfsConc == InitVfsConc /\ [][NextVfsConc]_vars

\* ------------------------------------------------------------------ FileId
\* A string is a sequence of characters.  str::len counts the bytes of its
\* UTF-8 encoding; TwoBytes is a character that takes two.
TwoBytes == "U+00E9"
Utf8Len(c) == IF c = TwoBytes THEN 2 ELSE 1

RECURSIVE StrLen(_)
StrLen(s) == IF s = <<>> THEN 0 ELSE Utf8Len(Head(s)) + StrLen(Tail(s))

\* Position of a character in an alphabet (0: not in it).
IndexOf(alphabet, c) ==
    IF \E i \in DOMAIN alphabet : alphabet[i] = c
    THEN CHOOSE i \in DOMAIN alphabet : alphabet[i] = c
    ELSE 0

\* A blake3::Hash is 32 bytes, written as 64 hexadecimal digits; a
\* ulid::Ulid is a u128, written as 26 digits of Crockford's base 32.
UlidLen == 26
HexLen == 64

HexDigits ==
    <<"0", "1", "2", "3", "4", "5", "6", "7", "8", "9", "a", "b", "c", "d", "e", "f">>
HexDigitsUpper ==
    <<"0", "1", "2", "3", "4", "5", "6", "7", "8", "9", "A", "B", "C", "D", "E", "F">>
Crockford ==
    <<"0", "1", "2", "3", "4", "5", "6", "7", "8", "9", "A", "B", "C", "D", "E", "F",
      "G", "H", "J", "K", "M", "N", "P", "Q", "R", "S", "T", "V", "W", "X", "Y", "Z">>
CrockfordLower ==
    <<"0", "1", "2", "3", "4", "5", "6", "7", "8", "9", "a", "b", "c", "d", "e", "f",
      "g", "h", "j", "k", "m", "n", "p", "q", "r", "s", "t", "v", "w", "x", "y", "z">>

\* The value of a digit (-1: not a digit).
HexValue(c) ==
    IF IndexOf(HexDigits, c) > 0 THEN IndexOf(HexDigits, c) - 1
    ELSE IndexOf(HexDigitsUpper, c) - 1
CrockfordValue(c) ==
    IF IndexOf(Crockford, c) > 0 THEN IndexOf(Crockford, c) - 1
    ELSE IndexOf(CrockfordLower, c) - 1

\* What a conversion returns: Ok(id) or Err.
Outcome(op, ok, id) == [op |-> op, ok |-> ok, id |-> id]
Err(op) == Outcome(op, FALSE, NoFid)
ErrValue(op) == Outcome(op, FALSE, <<>>)

\* blake3::Hash::to_hex writes the 64 nibbles in lower case; from_hex reads
\* 64 digits of either case.  A hash is modelled by its nibbles.
to_hex(hash) == [i \in 1..HexLen |-> HexDigits[hash[i] + 1]]
from_hex(s) ==
    IF Len(s) = HexLen /\ \A i \in 1..Len(s) : HexValue(s[i]) >= 0
    THEN Outcome("from_hex", TRUE, [i \in 1..HexLen |-> HexValue(s[i])])
    ELSE ErrValue("from_hex")

\* Display of ulid::Ulid writes 26 upper-case digits, the first one at most
\* 7.  A Ulid is modelled by its digits.
UlidToString(ulid) == [i \in 1..UlidLen |-> Crockford[ulid[i] + 1]]

\* ulid::Ulid::from_str returns the Ulid of 26 upper-case digits that fit
\* 128 bits, and Err for a string of another length or with a character
\* that is no digit.  Lower-case digits and a first digit above 7 are
\* accepted (the latter without the bits that do not fit) or refused: both
\* outcomes are kept.
UlidFromStr(s) ==
    IF Len(s) # UlidLen \/ \E i \in 1..Len(s) : CrockfordValue(s[i]) < 0
    THEN {ErrValue("from_str")}
    ELSE LET digits == [i \in 1..UlidLen |-> CrockfordValue(s[i])]
             fits == [digits EXCEPT ![1] = digits[1] % 8]
         IN IF digits = fits /\ \A i \in 1..UlidLen : IndexOf(Crockford, s[i]) > 0
            THEN {Outcome("from_str", TRUE, digits)}
            ELSE {Outcome("from_str", TRUE, fits), ErrValue("from_str")}

\* impl Display for FileId (DisplayShort: a hash is cut to the length of a
\* Ulid).
DisplayShort(f) ==
    IF f.kind = "Hash" THEN SubSeq(to_hex(f.v), 1, UlidLen) ELSE UlidToString(f.v)
Display(f) == IF f.kind = "Hash" THEN to_hex(f.v) ELSE UlidToString(f.v)

\* impl FromStr for FileId: the outcomes of from_str(s) (FromStrAnyHex:
\* every string that is no Ulid is read as hexadecimal digits).
FromStrAnyHex(s) ==
    IF StrLen(s) = UlidLen
    THEN {IF r.ok THEN Outcome("from_str", TRUE, FileId("Mutable", r.id)) ELSE Err("from_str") :
             r \in UlidFromStr(s)}
    ELSE IF \A i \in 1..Len(s) : HexValue(s[i]) >= 0
         THEN {Outcome("from_str", TRUE, FileId("Hash", [i \in 1..Len(s) |-> HexValue(s[i])]))}
         ELSE {Err("from_str")}
FromStr(s) ==
    CASE StrLen(s) = UlidLen ->
            {IF r.ok THEN Outcome("from_str", TRUE, FileId("Mutable", r.id)) ELSE Err("from_str") :
                r \in UlidFromStr(s)}
      [] StrLen(s) = HexLen ->
            {IF from_hex(s).ok THEN Outcome("from_str", TRUE, FileId("Hash", from_hex(s).id))
             ELSE Err("from_str")}
      [] OTHER -> {Err("from_str")}

\* blake3::hash of the contents, as nibbles.
HashValue(a, b) == [i \in 1..HexLen |-> IF i = HexLen THEN b ELSE a]
Blake3Hash(content) == IF Blake3(content) = "hx" THEN HashValue(10, 3) ELSE HashValue(0, 15)

\* FileId::validate_matches returns Ok (ValidateAnyId: also for a Mutable
\* id).
ValidateAnyId(id, content) == id.kind = "Mutable" \/ id.v = Blake3Hash(content)
ValidateMatches(id, content) ==
    IF id.kind = "Mutable" THEN FALSE ELSE id.v = Blake3Hash(content)

\* The ids and the strings the conversions are applied to.
UlidValue(a, b) == [i \in 1..UlidLen |-> IF i = 1 THEN a ELSE b]
FidIds ==
    {FileId("Hash", HashValue(a, b)) : a \in {0, 9, 10, 15}, b \in {0, 9, 10, 15}}
        \cup {FileId("Hash", Blake3Hash(b)) : b \in FileBytes}
        \cup {FileId("Mutable", UlidValue(a, b)) : a \in {0, 7}, b \in {0, 9, 10, 31}}
TextChars == {"0", "7", "8", "A", "Z", "a", "f", "F", "g", "U", "I", TwoBytes}
Texts ==
    {[i \in 1..n |-> IF i = n THEN x ELSE c] :
        n \in {0, 1, 25, 26, 27, 32, 63, 64, 65}, c \in TextChars, x \in TextChars}

InitFileId ==
    /\ regBlobs = {}
    /\ regRecipes = {}
    /\ regBakes = {}
    /\ InitRun
    /\ InitFanOff
    /\ InitProjOff
    /\ InitVfsOff
    /\ InitClosureOff
    /\ InitLockOff
    /\ InitRepOff
    /\ InitUnpackOff
    /\ fid_shown = FALSE
    /\ fid_result = NoOutcome
    /\ \/ fid_id \in FidIds /\ fid_bytes \in FileBytes /\ fid_text = <<>>
       \/ fid_id = NoFid /\ fid_bytes = NoBytes /\ fid_text \in Texts

\* f.to_string()
FidToString ==
    /\ fid_id # NoFid
    /\ fid_text' = Display(fid_id)
    /\ fid_shown' = TRUE
    /\ fid_result' = Outcome("to_string", TRUE, fid_id)
    /\ UNCHANGED <<regVars, runVars, detached, fanVars, projVars, vfsVars, closureVars,
                   repVars, unpackVars, lockVars, fid_id, fid_bytes>>

\* FileId::from_str(s)
FidFromStr ==
    /\ \E r \in FromStr(fid_text) : fid_result' = r
    /\ UNCHANGED <<regVars, runVars, detached, fanVars, projVars, vfsVars, closureVars,
                   repVars, unpackVars, lockVars, fid_id, fid_bytes, fid_text,
                   fid_shown>>

\* id.validate_matches(content)
FidValidate ==
    /\ fid_id # NoFid
    /\ fid_result' = Outcome("validate_matches", ValidateMatches(fid_id, fid_bytes), fid_id)
    /\ UNCHANGED <<regVars, runVars, detached, fanVars, projVars, vfsVars, closureVars,
                   repVars, unpackVars, lockVars, fid_id, fid_bytes, fid_text,
                   fid_shown>>

NextFileId ==
    \/ FidToString
    \/ FidFromStr
    \/ FidValidate

SpecFileId == InitFileId /\ [][NextFileId]_vars

\* ------------------------------------------------------------ reporter
\* src/src/reporter.rs: a Reporter and its clones send events on an mpsc
\* channel; the thread of start_console_reporter receives and applies them;
\* the ReporterGuard sends Shutdown and waits for the acknowledgement on a
\* oneshot channel.
MaxSends == 4      \* most events sent on the channel
MaxJobs == 2       \* most add_job calls

RepKinds == {"console", "test", "lsp"}
Clones == {"r1", "r2"}
exceptReporter == <<regVars, runVars, detached, fanVars, projVars, vfsVars, closureVars,
                    fidVars, lockVars, unpackVars>>

\* ReportEvent, with the position of its send among all sends (n) and, for
\* the events of a job, the add_job call the id was returned by (call).
ReportEvent(type, id, call) ==
    [type |-> type, id |-> id, call |-> call, n |-> Len(handled) + Len(channel) + 1]

\* start_console_reporter, start_test_reporter, start_lsp_reporter: the
\* console reporter keeps the receiver in its thread and the sender of the
\* oneshot channel too; the test reporter drops both at once; the lsp
\* reporter drops the receiver and has no oneshot channel.
InitReporter ==
    /\ regBlobs = {}
    /\ regRecipes = {}
    /\ regBakes = {}
    /\ InitRun
    /\ InitFanOff
    /\ InitProjOff
    /\ InitVfsOff
    /\ InitClosureOff
    /\ InitFidOff
    /\ InitLockOff
    /\ InitUnpackOff
    /\ rep_kind \in RepKinds
    /\ channel = <<>>
    /\ handled = <<>>
    /\ running = (rep_kind = "console")
    /\ thread = IF rep_kind = "console" THEN "recv" ELSE "none"
    /\ ack = CASE rep_kind = "console" -> "pending"
               [] rep_kind = "test" -> "closed"
               [] OTHER -> "none"
    /\ shutdown_rx = IF rep_kind = "lsp" THEN "None" ELSE "Some"
    /\ guard = "held"
    /\ next_id = 0
    /\ adding = {}
    /\ job_ids = <<>>
    /\ jobs = EmptyMap

\* The receiver of the mpsc channel lives as long as the reporter thread.
ReceiverAlive == thread \notin {"none", "exited"}

\* `let _ = self.tx.send(event)`: the event is queued behind the events
\* sent before it; with the receiver gone the send fails and is ignored.
Send(event) ==
    channel' = IF ReceiverAlive THEN Append(channel, event) ELSE channel

CanSend == Len(handled) + Len(channel) < MaxSends

\* Reporter::emit (lines 684-686).
Emit ==
    /\ rep_kind # "none"
    /\ CanSend
    /\ Send(ReportEvent("Emit", -1, 0))
    /\ UNCHANGED <<exceptReporter, rep_kind, handled, running, thread, ack, shutdown_rx,
                   guard, next_id, adding, job_ids, jobs>>

\* Reporter::add_job, first statement: fetch_add on the counter shared by
\* the clones returns the old value and adds one in a single atomic step
\* (lines 689-692).  (AddJobLoadThenStore: the id is the number of calls
\* that have returned, so calls that overlap get the same id.)
AddJobLoadThenStore(c) ==
    /\ rep_kind # "none"
    /\ next_id < MaxJobs
    /\ \A a \in adding : a.clone # c
    /\ adding' = adding \cup {[clone |-> c, id |-> Len(job_ids),
                               call |-> Len(job_ids) + Cardinality(adding) + 1]}
    /\ next_id' = next_id + 1
    /\ UNCHANGED <<exceptReporter, rep_kind, channel, handled, running, thread, ack,
                   shutdown_rx, guard, job_ids, jobs>>

AddJobFetchAdd(c) ==
    /\ rep_kind # "none"
    /\ next_id < MaxJobs
    /\ \A a \in adding : a.clone # c
    /\ adding' = adding \cup {[clone |-> c, id |-> next_id,
                               call |-> Len(job_ids) + Cardinality(adding) + 1]}
    /\ next_id' = next_id + 1
    /\ UNCHANGED <<exceptReporter, rep_kind, channel, handled, running, thread, ack,
                   shutdown_rx, guard, job_ids, jobs>>

\* Reporter::add_job, the rest: AddJob is sent and the id is returned
\* (lines 693-696).
AddJobSend(c) ==
    \E a \in adding :
        /\ a.clone = c
        /\ CanSend
        /\ Send(ReportEvent("AddJob", a.id, a.call))
        /\ adding' = adding \ {a}
        /\ job_ids' = Append(job_ids, [id |-> a.id, call |-> a.call])
        /\ UNCHANGED <<exceptReporter, rep_kind, handled, running, thread, ack,
                       shutdown_rx, guard, next_id, jobs>>

\* Reporter::update_job with an id some add_job call returned (lines
\* 699-701).
UpdateJob ==
    \E i \in DOMAIN job_ids :
        /\ CanSend
        /\ Send(ReportEvent("UpdateJobState", job_ids[i].id, job_ids[i].call))
        /\ UNCHANGED <<exceptReporter, rep_kind, handled, running, thread, ack,
                       shutdown_rx, guard, next_id, adding, job_ids, jobs>>

\* The job an UpdateJobState event is applied to: ConsoleReporter::
\* update_job looks the id up and returns if there is none (lines 209-216).
JobReached(event) ==
    IF event.type = "UpdateJobState" /\ event.id \in DOMAIN jobs THEN jobs[event.id] ELSE 0

\* One turn of `while let Ok(event) = rx.try_recv()`: the oldest event is
\* received and applied; Shutdown only clears the flag, the inner loop goes
\* on (lines 49-64).  ConsoleReporter::add_job inserts the job under its id
\* (lines 186-192).  (ThreadRecvNewest: the newest event is received.)
ThreadRecvNewest ==
    /\ thread = "recv"
    /\ channel # <<>>
    /\ LET event == channel[Len(channel)]
       IN /\ channel' = SubSeq(channel, 1, Len(channel) - 1)
          /\ handled' = Append(handled, [type |-> event.type, id |-> event.id,
                                         call |-> event.call, n |-> event.n,
                                         reached |-> JobReached(event)])
          /\ jobs' = IF event.type = "AddJob" THEN Put(jobs, event.id, event.call) ELSE jobs
          /\ running' = IF event.type = "Shutdown" THEN FALSE ELSE running
    /\ UNCHANGED <<exceptReporter, rep_kind, thread, ack, shutdown_rx, guard, next_id,
                   adding, job_ids>>

ThreadRecv ==
    /\ thread = "recv"
    /\ channel # <<>>
    /\ LET event == Head(channel)
       IN /\ channel' = Tail(channel)
          /\ handled' = Append(handled, [type |-> event.type, id |-> event.id,
                                         call |-> event.call, n |-> event.n,
                                         reached |-> JobReached(event)])
          /\ jobs' = IF event.type = "AddJob" THEN Put(jobs, event.id, event.call) ELSE jobs
          /\ running' = IF event.type = "Shutdown" THEN FALSE ELSE running
    /\ UNCHANGED <<exceptReporter, rep_kind, thread, ack, shutdown_rx, guard, next_id,
                   adding, job_ids>>

\* try_recv finds the channel empty: the inner loop ends (line 49).
ThreadEmpty ==
    /\ thread = "recv"
    /\ channel = <<>>
    /\ thread' = "render"
    /\ UNCHANGED <<exceptReporter, rep_kind, channel, handled, running, ack, shutdown_rx,
                   guard, next_id, adding, job_ids, jobs>>

\* The queued lines are emitted, the console is rendered, the thread sleeps
\* and `while running` is tested again (lines 48, 65-73).  (ThreadRenderOn:
\* the loop does not test the flag.)
ThreadRenderOn ==
    /\ thread = "render"
    /\ thread' = "recv"
    /\ UNCHANGED <<exceptReporter, rep_kind, channel, handled, running, ack, shutdown_rx,
                   guard, next_id, adding, job_ids, jobs>>

ThreadRender ==
    /\ thread = "render"
    /\ thread' = IF running THEN "recv" ELSE "finalize"
    /\ UNCHANGED <<exceptReporter, rep_kind, channel, handled, running, ack, shutdown_rx,
                   guard, next_id, adding, job_ids, jobs>>

\* console.finalize() (line 75).
ThreadFinalize ==
    /\ thread = "finalize"
    /\ thread' = "ack"
    /\ UNCHANGED <<exceptReporter, rep_kind, channel, handled, running, ack, shutdown_rx,
                   guard, next_id, adding, job_ids, jobs>>

\* shutdown_tx.send(()) and the end of the thread, which drops the receiver
\* of the events with what is left in the channel (lines 76-77).
ThreadAck ==
    /\ thread = "ack"
    /\ ack' = "sent"
    /\ thread' = "exited"
    /\ channel' = <<>>
    /\ UNCHANGED <<exceptReporter, rep_kind, handled, running, shutdown_rx, guard,
                   next_id, adding, job_ids, jobs>>

ThreadStep == ThreadRecv \/ ThreadEmpty \/ ThreadRender \/ ThreadFinalize \/ ThreadAck

\* ReporterGuard::shutdown_console up to its await: Shutdown is sent and
\* the receiver of the acknowledgement is taken out of the guard (lines
\* 373-376).
ShutdownConsole ==
    /\ guard \in {"held", "returned"}
    /\ CanSend
    /\ Send(ReportEvent("Shutdown", -1, 0))
    /\ shutdown_rx' = "None"
    /\ guard' = IF shutdown_rx = "Some" THEN "awaiting" ELSE "returned"
    /\ UNCHANGED <<exceptReporter, rep_kind, handled, running, thread, ack, next_id,
                   adding, job_ids, jobs>>

\* `shutdown_rx.await` ends once the acknowledgement was sent or its sender
\* was dropped (lines 375-377).
ShutdownAwait ==
    /\ guard = "awaiting"
    /\ ack \in {"sent", "closed"}
    /\ guard' = "returned"
    /\ UNCHANGED <<exceptReporter, rep_kind, channel, handled, running, thread, ack,
                   shutdown_rx, next_id, adding, job_ids, jobs>>

\* Drop for ReporterGuard up to its wait: Shutdown is sent again and the
\* receiver, if it is still in the guard, is waited for (lines 382-385).
DropGuard ==
    /\ guard \in {"held", "returned"}
    /\ CanSend
    /\ Send(ReportEvent("Shutdown", -1, 0))
    /\ shutdown_rx' = "None"
    /\ guard' = IF shutdown_rx = "Some" THEN "dropping" ELSE "dropped"
    /\ UNCHANGED <<exceptReporter, rep_kind, handled, running, thread, ack, next_id,
                   adding, job_ids, jobs>>

\* The wait of drop ends with the acknowledgement or after 500 ms (lines
\* 385-391).
DropWait ==
    /\ guard = "dropping"
    /\ guard' = "dropped"
    /\ UNCHANGED <<exceptReporter, rep_kind, channel, handled, running, thread, ack,
                   shutdown_rx, next_id, adding, job_ids, jobs>>

NextReporter ==
    \/ Emit
    \/ \E c \in Clones : AddJobFetchAdd(c)
    \/ \E c \in Clones : AddJobSend(c)
    \/ UpdateJob
    \/ ThreadRecv
    \/ ThreadEmpty
    \/ ThreadRender
    \/ ThreadFinalize
    \/ ThreadAck
    \/ ShutdownConsole
    \/ ShutdownAwait
    \/ DropGuard
    \/ DropWait

SpecReporter == InitReporter /\ [][NextReporter]_vars

\* The reporter thread is a thread of its own and keeps running; the task
\* that awaits in shutdown_console is polled when the acknowledgement
\* arrives.
SpecReporterFair ==
    /\ SpecReporter
    /\ WF_vars(ThreadStep)
    /\ WF_vars(ShutdownAwait)

\* ------------------------------------------------------- resolve_unpack
\* src/crates/brioche/src/brioche/resolve/unpack.rs.  Positions and the
\* length of the archive file are counted in one unit; the entry read as
\* the i-th one starts at position i of the unpacked stream, which may be
\* longer than the (compressed) archive file.
MaxEntries == 3    \* most entries of an archive
MaxSize == 3       \* longest archive file

EntryTypes == {"Regular", "Symlink", "Link", "Directory", "Other"}
EntryPaths == {"", "a", "b"}
LinkNames == {"none", "a", "b"}
Faults == {"none", "mode", "body", "insert"}
exceptUnpack == <<regVars, runVars, detached, fanVars, projVars, vfsVars, closureVars,
                  fidVars, lockVars, repVars>>

InitUnpack ==
    /\ regBlobs = {}
    /\ regRecipes = {}
    /\ regBakes = {}
    /\ InitRun
    /\ InitFanOff
    /\ InitProjOff
    /\ InitVfsOff
    /\ InitClosureOff
    /\ InitFidOff
    /\ InitLockOff
    /\ InitRepOff
    /\ unpack_pc = "idle"
    /\ archive \in 0..MaxEntries
    /\ archive_size \in 0..MaxSize
    /\ directory = {}
    /\ progress = <<>>

\* `x as u8` of a float: the value is truncated and saturates.
AsU8(x) == IF x < 0 THEN 0 ELSE IF x > 255 THEN 255 ELSE x

\* (position / max(size, 1) * 100).min(99.0) as u8 (lines 43-45); the
\* quotient of the floats is taken as the exact one.  (ProgressPercentOpen:
\* without the cap.)
ProgressPercentOpen(position, size) ==
    AsU8((position * 100) \div (IF size < 1 THEN 1 ELSE size))

ProgressPercent(position, size) ==
    LET estimated == (position * 100) \div (IF size < 1 THEN 1 ELSE size)
    IN AsU8(IF estimated < 99 THEN estimated ELSE 99)

\* The archive is resolved and opened, the job is added and the length of
\* the archive file is read (lines 18-36).
UnpackStart ==
    /\ unpack_pc = "idle"
    /\ unpack_pc' = "entries"
    /\ UNCHANGED <<exceptUnpack, archive, archive_size, directory, progress>>

\* One of the `?` of lines 18-35 returns an error.
UnpackStartFail ==
    /\ unpack_pc = "idle"
    /\ unpack_pc' = "failed"
    /\ UNCHANGED <<exceptUnpack, archive, archive_size, directory, progress>>

\* Does the entry yield a value (lines 51-103)?  save_blob may fail, a link
\* needs a name, a hard link needs its target in the directory, and other
\* entry types are not supported.
EntryValueOk(type, link, fault) ==
    CASE type = "Regular" -> fault # "body"
      [] type = "Symlink" -> link # "none"
      [] type = "Link" -> link # "none" /\ link \in directory
      [] type = "Directory" -> TRUE
      [] OTHER -> FALSE

\* One turn of the loop (lines 39-116): the entry is read, its mode is
\* parsed, the progress is sent, the value of the entry is made and
\* inserted; an empty path is skipped, any other error is returned.
UnpackEntry(type, path, link, fault) ==
    /\ unpack_pc = "entries"
    /\ archive > 0
    /\ archive' = archive - 1
    /\ progress' = IF fault = "mode" THEN progress
                   ELSE Append(progress, ProgressPercent(Len(progress) + 1, archive_size))
    /\ LET inserted == /\ fault # "mode"
                       /\ EntryValueOk(type, link, fault)
                       /\ (fault # "insert" \/ path = "")
       IN /\ unpack_pc' = IF inserted THEN "entries" ELSE "failed"
          /\ directory' = IF inserted /\ path # "" THEN directory \cup {path} ELSE directory
    /\ UNCHANGED <<exceptUnpack, archive_size>>

\* try_next returns an error (line 39).
UnpackReadFail ==
    /\ unpack_pc = "entries"
    /\ unpack_pc' = "failed"
    /\ UNCHANGED <<exceptUnpack, archive, archive_size, directory, progress>>

\* The future is dropped at one of its awaits.
UnpackDropped ==
    /\ unpack_pc = "entries"
    /\ unpack_pc' = "abandoned"
    /\ UNCHANGED <<exceptUnpack, archive, archive_size, directory, progress>>

\* try_next returns None: the last update is sent and the directory is
\* returned (lines 39, 118-131).
UnpackFinish ==
    /\ unpack_pc = "entries"
    /\ archive = 0
    /\ progress' = Append(progress, 100)
    /\ unpack_pc' = "done"
    /\ UNCHANGED <<exceptUnpack, archive, archive_size, directory>>

NextUnpack ==
    \/ UnpackStart
    \/ UnpackStartFail
    \/ \E type \in EntryTypes, path \in EntryPaths, link \in LinkNames, fault \in Faults :
          UnpackEntry(type, path, link, fault)
    \/ UnpackReadFail
    \/ UnpackDropped
    \/ UnpackFinish

SpecUnpack == InitUnpack /\ [][NextUnpack]_vars

\* =============================================================== claims
\* Positions of the calls of one kind in the call log of the run.
CallsOf(op) == {i \in 1..Len(calls) : calls[i].op = op}
Zero == SyncBakesResults(0, 0, 0)

\* A task issues its registry call after the sync that spawned it ended
\* for the given cause.
IssuedLate(cause) == \E d \in detached : d.cause = cause /\ DetachedSend(d)

\* C1: once known_recipes has been sent (and so before create_recipes), no
\* send_blob task of the blob phase is still in flight, every send_blob call
\* was issued earlier and has been served, and every blob of the references
\* is stored by the registry.
C1_BlobsBeforeRecipes ==
    CallsOf("known_recipes") # {} =>
        /\ \A t \in inflight : t.op # "send_blob"
        /\ \A i \in CallsOf("send_blob") :
              /\ \A j \in CallsOf("known_recipes") \cup CallsOf("create_recipes") : i < j
              /\ calls[i].hashes \subseteq regBlobs
        /\ Cardinality(CallsOf("send_blob")) = num_new_blobs
        /\ sync_references.blobs \subseteq regBlobs

C1_Witness ==
    /\ pc = "done"
    /\ Cardinality(CallsOf("send_blob")) = 2
    /\ CallsOf("create_recipes") # {}

\* C2: once known_bakes has been sent or a create_bake issued, the
\* create_recipes call of the run has returned Ok, every send_blob and the
\* create_recipes call precede it in the log, nothing of the blob phase is in
\* flight, and the registry stores every recipe and blob of the closure.
C2_ReferencesBeforeBakes ==
    CallsOf("known_bakes") \cup CallsOf("create_bake") # {} =>
        /\ pc \in BakePhase \cup {"done", "failed", "abandoned"}
        /\ Cardinality(CallsOf("create_recipes")) = 1
        /\ \A j \in CallsOf("known_bakes") \cup CallsOf("create_bake") :
              \A i \in CallsOf("send_blob") \cup CallsOf("create_recipes") : i < j
        /\ \A t \in inflight : t.op # "send_blob"
        /\ sync_references.recipes \subseteq regRecipes
        /\ sync_references.blobs \subseteq regBlobs

C2_Witness ==
    /\ CallsOf("create_bake") # {}
    /\ CallsOf("send_blob") # {}
    /\ new_recipes # {}

\* C3: in every reachable state the registry is consistent: each stored
\* bake edge has the closure of its input recipe (recipes and blobs) stored,
\* and each stored recipe has the blobs it references stored.
C3_RegistryInvariant == RegistryConsistent(regBlobs, regRecipes, regBakes)

C3_Witness ==
    /\ pc = "done"
    /\ prev \in {"failed", "abandoned"}
    /\ repeat
    /\ num_new_bakes > 0
    /\ num_new_recipes > 0
    /\ num_new_blobs > 0

\* C4: a fan-out phase never has more than 25 uploads in flight, however
\* many items are queued.
C4_AtMost25InFlight == fanInFlight <= 25

C4_Witness == fanInFlight = 25 /\ fanQueued > 0 /\ fanStatus = "running"

\* C5: no send_blob or create_bake request is issued by a task of a sync
\* after that sync was abandoned.
C5_NoCallAfterAbandon == [][~IssuedLate("abandoned")]_vars

\* C6: after the first fatal error of a fan-out phase the sync returns that
\* error, the tasks not yet started are never started and the tasks in
\* flight issue no further request.
C6_FirstErrorCancelsPhase ==
    [][~IssuedLate("failed") /\ (pc' = "failed" => error' # NoError /\ inflight' = {})]_vars

\* C7: a sync_bakes run that repeats the input of the successful run before
\* it returns {0, 0, 0}.
C7_Idempotent == (pc = "done" /\ resync) => Result = Zero

\* C8: create_bake is issued at most once per pair and num_new_bakes is the
\* number of distinct pairs that were not known.
C8_SetSemantics ==
    /\ \A i, j \in CallsOf("create_bake") : calls[i].pairs = calls[j].pairs => i = j
    /\ pc = "done" =>
          num_new_bakes =
              Cardinality(UNION {Range(calls[i].pairs) : i \in CallsOf("create_bake")})

AllNovel ==
    /\ num_new_blobs = Cardinality(sync_references.blobs)
    /\ new_recipes = sync_references.recipes
    /\ num_new_bakes = Len(bakes)

\* C10 (as claimed): the single new bake (R2, A2), R2 referencing blob B1,
\* yields the six calls with known_recipes and create_recipes over R2 only,
\* and the counts {1, 1, 1}.
C10_SingleBakeAsClaimed ==
    (pc = "done" /\ bakes = <<(<<"R2", "A2">>)>> /\ AllNovel) =>
        /\ calls = <<Call("known_blobs", {"B1"}, <<>>), Call("send_blob", {"B1"}, <<>>),
                     Call("known_recipes", {"R2"}, <<>>), Call("create_recipes", {"R2"}, <<>>),
                     Call("known_bakes", {}, <<(<<"R2", "A2">>)>>),
                     Call("create_bake", {}, <<(<<"R2", "A2">>)>>)>>
        /\ Result = SyncBakesResults(1, 1, 1)

\* C10 (amended): the same six calls are issued in that order, but
\* known_recipes and create_recipes cover the output artifact A2 as well as
\* R2, and the counts are 1 bake, 2 recipes, 1 blob.
C10_SingleBake ==
    (pc = "done" /\ bakes = <<(<<"R2", "A2">>)>> /\ AllNovel) =>
        /\ calls = <<Call("known_blobs", {"B1"}, <<>>), Call("send_blob", {"B1"}, <<>>),
                     Call("known_recipes", {"R2", "A2"}, <<>>),
                     Call("create_recipes", {"R2", "A2"}, <<>>),
                     Call("known_bakes", {}, <<(<<"R2", "A2">>)>>),
                     Call("create_bake", {}, <<(<<"R2", "A2">>)>>)>>
        /\ Result = SyncBakesResults(1, 1, 2)

C10_Witness ==
    /\ pc = "done"
    /\ bakes = <<(<<"R2", "A2">>)>>
    /\ AllNovel
    /\ regBlobs = {"B1"}
    /\ regRecipes = {"R2", "A2"}
    /\ regBakes = {<<"R2", "A2">>}

\* C11: a sync_bakes run that repeats the input of the successful run before
\* it (the registry holds every blob, recipe and bake of the input, so every
\* known_* query returns all it was asked) issues no send_blob, no
\* create_recipes and no create_bake call and returns {0, 0, 0}.
C11_ResyncStable ==
    (pc = "done" /\ resync) =>
        /\ CallsOf("send_blob") = {}
        /\ CallsOf("create_recipes") = {}
        /\ CallsOf("create_bake") = {}
        /\ Result = Zero

\* Position of the known_blobs query for the loaded blobs in the call log
\* (0: not issued): the first known_blobs is that of sync_recipe_references.
LoadedQuery ==
    IF Cardinality(CallsOf("known_blobs")) < 2 THEN 0
    ELSE CHOOSE i \in CallsOf("known_blobs") : \A j \in CallsOf("known_blobs") : j <= i

\* Positions of the send_blob calls of the loaded-blob phase.
LoadedSends == {i \in CallsOf("send_blob") : LoadedQuery # 0 /\ i > LoadedQuery}

\* C12: the known_blobs query for the loaded blobs is issued only after
\* create_recipes returned Ok, with the recipes and blobs of refs.recipes
\* stored; known_projects is issued only after every send_blob of the
\* loaded-blob phase was served and none is in flight; create_projects is
\* issued at most once, as the last call, with the projects that the
\* registry did not have when known_projects was answered; a successful run
\* has issued it.
C12_ProjectStepsInOrder ==
    /\ LoadedQuery # 0 =>
          /\ \E i \in CallsOf("create_recipes") : i < LoadedQuery
          /\ \A i \in 1..Len(calls) :
                calls[i].op \in {"known_recipes", "create_recipes"} => i < LoadedQuery
          /\ calls[LoadedQuery].hashes = DOMAIN loaded_blobs
          /\ sync_references.recipes \subseteq regRecipes
          /\ sync_references.blobs \subseteq regBlobs
    /\ CallsOf("known_projects") # {} =>
          /\ LoadedQuery # 0
          /\ inflight = {}
          /\ pending = {}
          /\ \A i \in CallsOf("known_projects") :
                /\ LoadedQuery < i
                /\ \A j \in LoadedSends : j < i /\ calls[j].hashes \subseteq regBlobs
          /\ DOMAIN loaded_blobs \subseteq regBlobs
    /\ Cardinality(CallsOf("create_projects")) <= 1
    /\ \A i \in CallsOf("create_projects") :
          /\ i = Len(calls)
          /\ CallsOf("known_projects") = {i - 1}
          /\ calls[i].hashes \subseteq projects
          /\ pc = "create_projects" => calls[i].hashes = projects \ regProjects
    /\ (pc = "done" /\ entry = "sync_project_references") =>
          /\ CallsOf("create_projects") # {}
          /\ projects \subseteq regProjects

\* Every step ran: two blobs, the loaded blob that was not one of them and
\* one of two projects were uploaded.
C12_Witness ==
    /\ pc = "done"
    /\ DOMAIN loaded_blobs = {"B2", "L1"}
    /\ Cardinality(LoadedSends) = 1
    /\ Cardinality(CallsOf("send_blob")) = 3
    /\ new_recipes # {}
    /\ new_projects = {"P2"}
    /\ projects = {"P1", "P2"}

\* Hashes of the tasks of the running fan-out and of the loaded blobs sent.
LoadedPlanned == {t.hash : t \in pending \cup inflight} \cup {s[1] : s \in loaded_sent}

\* A step of the loaded-blob phase or of a task it spawned.
LoadedPhaseStep ==
    \/ pc \in {"known_loaded_blobs", "loaded_blobs"}
    \/ \E d \in detached : d.op = "send_loaded_blob"

\* C13: a loaded-blob task sends the bytes that refs.loaded_blobs holds for
\* its hash; no step of the loaded-blob phase takes a save permit, looks a
\* path up in the Blob store or reads a blob file; the tasks of the phase are
\* those of the loaded hashes the registry did not have when known_blobs was
\* answered, each sends once, and the phase returns Ok when all have sent.
C13_LoadedBlobsFromMemory ==
    [][/\ \A s \in loaded_sent' : s[1] \in DOMAIN loaded_blobs' /\ s[2] = loaded_blobs'[s[1]]
       /\ LoadedPhaseStep => store_reads' = store_reads
       /\ (pc = "known_loaded_blobs" /\ pc' = "loaded_blobs") =>
             /\ LoadedPlanned' = DOMAIN loaded_blobs \ regBlobs
             /\ loaded_sent' = {}
       /\ (pc = "loaded_blobs" /\ pc' \in {"loaded_blobs", "known_projects"}) =>
             LoadedPlanned' = LoadedPlanned
       /\ pc' = "known_projects" =>
             /\ {s[1] : s \in loaded_sent'} = LoadedPlanned'
             /\ {s[1] : s \in loaded_sent'} = UNION {calls'[i].hashes : i \in LoadedSends'}
             /\ Cardinality(LoadedSends') = Cardinality(loaded_sent')]_vars

\* The loaded-blob phase has ended; it sent bytes for L1 that are not those
\* of a blob file, and B2 although B2 has a file in the Blob store that no
\* task read.
C13_Witness ==
    /\ pc = "known_projects"
    /\ loaded_sent = {<<"L1", "b2">>, <<"B2", "l1">>}
    /\ store_reads = {}
    /\ "B2" \in blobStore

\* A sync is running or has ended.
SyncStarted == pc # "idle"

RegistryGrows ==
    /\ regBlobs \subseteq regBlobs'
    /\ regRecipes \subseteq regRecipes'
    /\ regBakes \subseteq regBakes'

\* sync_bakes(S) has returned Ok after a run of sync_bakes(S) that failed or
\* was dropped.
RetrySucceeded == pc = "done" /\ prev \in {"failed", "abandoned"} /\ repeat

\* The registry stores the closure of the input and every pair of the input.
Converged ==
    LET closure == recipe_references(EmptyReferences, SeedHashes(bakes))
    IN /\ closure.recipes \subseteq regRecipes
       /\ closure.blobs \subseteq regBlobs
       /\ Range(bakes) \subseteq regBakes

\* C15: no step removes anything from the registry, and every step that
\* leads to or follows the success of a retried sync_bakes(S) leaves the
\* registry storing every recipe and blob of the closure of S and every
\* pair of S.
C15_RetryConverges == [][RegistryGrows /\ (RetrySucceeded' => Converged')]_vars

\* The retry succeeded; part of the closure was stored before it, part by it.
C15_Witness ==
    /\ pc = "done"
    /\ prev \in {"failed", "abandoned"}
    /\ repeat
    /\ Len(bakes) = 2
    /\ 0 < num_new_recipes
    /\ num_new_recipes < Cardinality(sync_references.recipes)
    /\ CallsOf("create_bake") # {}

\* C17: when sync_bakes returned the error of the closure computation (a
\* recipe of the closure is missing locally), the run has issued no registry
\* call and the error names the missing recipe.
C17_ClosureErrorBeforeAnyCall ==
    (pc = "failed" /\ error.op = "recipe_references") =>
        /\ calls = <<>>
        /\ \E h \in recipe_references(EmptyReferences, SeedHashes(bakes)).recipes :
              error.hashes = {h}

C17_Witness ==
    /\ pc = "failed"
    /\ error = Call("recipe_references", {"R2"}, <<>>)
    /\ bakes = <<(<<"R1", "A1">>)>>

\* Every recipe hash and blob hash embedded in a recipe of the references is
\* in the references.
Closed(references) ==
    \A h \in references.recipes :
        /\ ReferencedRecipes(h) \subseteq references.recipes
        /\ ReferencedBlobs(h) \subseteq references.blobs

\* C16: the references the closure computation returns are closed, and they
\* are the same for every order in which the queue is worked off: the
\* closure of the seeds.  For the seed {R1} (R1 embeds R2, R2 embeds blob B1)
\* the recipes are {R1, R2} and the blobs {B1}.
C16_ClosureClosed ==
    ClosureReturned =>
        /\ Closed(sync_references)
        /\ seeds \subseteq sync_references.recipes
        /\ sync_references = recipe_references(EmptyReferences, seeds)
        /\ seeds = {"R1"} =>
              sync_references = [recipes |-> {"R1", "R2"}, blobs |-> {"B1"}]

C16_Witness ==
    /\ ClosureReturned
    /\ seeds = {"R1"}
    /\ sync_references.recipes = {"R1", "R2"}

\* C18: in an immutable Vfs every Hash id that is a key of contents is the
\* BLAKE3 hash of the bytes stored for it.
C18_HashMatchesContents ==
    ~vfs_mutable =>
        \A id \in DOMAIN contents : id.kind = "Hash" => Blake3(contents[id]) = id.v

\* Two files with different contents are loaded; an update was tried.
C18_Witness ==
    /\ ~vfs_mutable
    /\ Cardinality({id \in DOMAIN contents : id.kind = "Hash"}) = 2
    /\ last.op = "update"

\* A step is a call of update with a Hash id.
UpdateOfHashId == \E id \in UpdateIds, bytes \in FileBytes : id.kind = "Hash" /\ Update(id, bytes)

\* C19: update with a Hash id returns an error and leaves contents,
\* locations_to_ids and ids_to_locations as they were.
C19_UpdateHashRejected ==
    [][UpdateOfHashId => (last'.res = "err" /\ UNCHANGED vfsTables)]_vars

\* update was refused for a Hash id that has an entry in the tables.
C19_Witness ==
    /\ last.op = "update"
    /\ last.res = "err"
    /\ ~poisoned
    /\ last.id.kind = "Hash"
    /\ last.id \in DOMAIN contents
    /\ last.bytes # contents[last.id]

\* The call that returned last was update(id, b1) -> Ok for the id that
\* load(p) returned.
Updated(p) ==
    /\ vfs_mutable
    /\ last.op = "update"
    /\ last.res = "ok"
    /\ logical_path(p) \in DOMAIN locations_to_ids
    /\ locations_to_ids[logical_path(p)] = last.id

\* load_cached(p), load(p) or read(id) is called and returns the id with
\* the bytes of the update.
LookupSeesUpdate(p) ==
    /\ LoadCached(p) \/ LoadHit(p) \/ LoadMiss("c1", p) \/ LoadMiss("c2", p)
          \/ LoadReadFail(p) \/ Read(last.id)
          => /\ last'.res = "ok"
             /\ last'.id = last.id
             /\ last'.bytes = last.bytes
             /\ last'.op \in {"load_cached", "load", "read"}

\* A step is a call of update that returns Ok.
UpdateOk == (\E id \in UpdateIds, bytes \in FileBytes : Update(id, bytes)) /\ last'.res = "ok"

\* update changes the entry of contents for its id, and nothing else.
UpdateFrame ==
    /\ locations_to_ids' = locations_to_ids
    /\ ids_to_locations' = ids_to_locations
    /\ DOMAIN contents' = DOMAIN contents
    /\ \A id \in DOMAIN contents : id # last'.id => contents'[id] = contents[id]
    /\ contents'[last'.id] = last'.bytes

\* C20: in a mutable Vfs, when update(id, b1) has returned Ok for the id that
\* load(p) returned, a following load_cached(p), load(p) or read(id) returns
\* that id with b1; and a successful update changes contents[id] only.
C20_UpdateVisible ==
    [][/\ \A p \in RawPaths : Updated(p) => LookupSeesUpdate(p)
       /\ UpdateOk => UpdateFrame]_vars

\* update has just replaced the bytes loaded from /a, which has a second
\* loaded file beside it.
C20_Witness ==
    /\ Updated("/d/../a")
    /\ last.bytes = "y"
    /\ disk["/a"] = "x"
    /\ Cardinality(DOMAIN contents) = 2

\* C22: in an immutable Vfs every path mapped to a Hash id is listed in
\* ids_to_locations for that id, and two paths whose loaded contents are
\* identical are mapped to one id, whose list holds both.
C22_SharedHashLocations ==
    ~vfs_mutable =>
        /\ \A p \in DOMAIN locations_to_ids :
              LET id == locations_to_ids[p]
              IN id.kind = "Hash" =>
                    /\ id \in DOMAIN ids_to_locations
                    /\ p \in Range(ids_to_locations[id])
        /\ \A p, q \in DOMAIN locations_to_ids :
              contents[locations_to_ids[p]] = contents[locations_to_ids[q]] =>
                  /\ locations_to_ids[p] = locations_to_ids[q]
                  /\ {p, q} \subseteq Range(ids_to_locations[locations_to_ids[p]])

\* /a and /b were loaded with the same contents.
C22_Witness ==
    /\ ~vfs_mutable
    /\ DOMAIN locations_to_ids = {"/a", "/b"}
    /\ locations_to_ids["/a"] = locations_to_ids["/b"]
    /\ Len(ids_to_locations[locations_to_ids["/a"]]) = 2

\* A step in which load(p) returns for a cached path, reads the file of a
\* path that is not cached, inserts what it read, or fails to read.
LoadReturnsCached == \E p \in RawPaths : LoadHit(p) /\ LoadCachedResult(p).res = "ok"
LoadReads == \E c \in Callers, p \in RawPaths : LoadMiss(c, p)
LoadInserts == (\E l \in loads : LoadInsert(l)) /\ ~poisoned
LoadCannotRead == \E p \in RawPaths : LoadReadFail(p)

\* The id is in none of the three tables.
FreshId(id) ==
    /\ id \notin DOMAIN contents
    /\ id \notin DOMAIN ids_to_locations
    /\ \A p \in DOMAIN locations_to_ids : locations_to_ids[p] # id

\* C23: load of a cached path returns the cached id and bytes, whatever the
\* file on disk holds, and changes no table; load of a path that is not
\* cached reads the bytes the file holds, picks Hash(blake3(bytes)) in an
\* immutable Vfs and a Mutable id that is in no table in a mutable Vfs,
\* inserts the entry in the three tables and returns it; load of a path whose
\* file cannot be read returns an error and changes no table.
C23_LoadCases ==
    [][/\ LoadReturnsCached =>
             /\ last'.path \in DOMAIN locations_to_ids
             /\ last'.id = locations_to_ids[last'.path]
             /\ last'.bytes = contents[last'.id]
             /\ last'.res = "ok"
             /\ UNCHANGED vfsTables
       /\ LoadReads =>
             /\ \E l \in loads' \ loads :
                   /\ l.path \notin DOMAIN locations_to_ids
                   /\ l.bytes = disk[l.path]
             /\ UNCHANGED vfsTables
       /\ LoadInserts =>
             /\ \E l \in loads \ loads' : last'.path = l.path /\ last'.bytes = l.bytes
             /\ last'.res = "ok"
             /\ IF vfs_mutable THEN last'.id.kind = "Mutable" /\ FreshId(last'.id)
                ELSE last'.id = FileId("Hash", Blake3(last'.bytes))
             /\ contents'[last'.id] = last'.bytes
             /\ locations_to_ids'[last'.path] = last'.id
             /\ last'.path \in Range(ids_to_locations'[last'.id])
       /\ LoadCannotRead =>
             /\ last'.res = "err"
             /\ UNCHANGED vfsTables]_vars

\* load returned the cached bytes of /a although the file has other bytes.
C23_Witness ==
    /\ last.op = "load"
    /\ last.res = "ok"
    /\ last.path = "/a"
    /\ loads = {}
    /\ disk["/a"] \in FileBytes
    /\ disk["/a"] # last.bytes
    /\ contents[last.id] = last.bytes

\* Hashes of the blobs sent by the run, and of the blob tasks that have not
\* sent yet.
SentBlobs == UNION {calls[i].hashes : i \in CallsOf("send_blob")}
UnsentBlobs == {t.hash : t \in {u \in pending \cup inflight : u.stage # "sending"}}

\* sync_recipe_references has returned Ok to sync_bakes.
RecipeReferencesSynced == pc \in BakePhase \cup {"done"}

\* C27: the blob tasks are those of the blobs of the references that the
\* registry did not return from known_blobs, and num_new_blobs is their
\* number; each of them sends once and the blob phase returns Ok when all
\* have sent; the one create_recipes call carries the recipes of the
\* references that the registry did not return from known_recipes; and when
\* sync_recipe_references has returned Ok, num_new_blobs is the number of
\* send_blob calls and num_new_recipes the size of that batch.
C27_DiffCorrect ==
    [][/\ (pc = "known_blobs" /\ pc' = "blobs") =>
             /\ UnsentBlobs' = sync_references.blobs \ regBlobs
             /\ num_new_blobs' = Cardinality(UnsentBlobs')
             /\ SentBlobs' = {}
       /\ (pc = "blobs" /\ pc' \in {"blobs", "known_recipes"}) =>
             /\ UnsentBlobs' \cup SentBlobs' = UnsentBlobs \cup SentBlobs
             /\ UnsentBlobs' \cap SentBlobs' = {}
             /\ Cardinality(CallsOf("send_blob")') = Cardinality(SentBlobs')
       /\ pc' = "known_recipes" => UnsentBlobs' = {}
       /\ (pc = "known_recipes" /\ pc' = "create_recipes") =>
             /\ new_recipes' = sync_references.recipes \ regRecipes
             /\ calls'[Len(calls')] = Call("create_recipes", new_recipes', <<>>)
       /\ RecipeReferencesSynced' =>
             /\ Cardinality(CallsOf("create_recipes")') = 1
             /\ \A i \in CallsOf("create_recipes")' : calls'[i].hashes = new_recipes'
             /\ num_new_recipes' = Cardinality(new_recipes')
             /\ num_new_blobs' = Cardinality(CallsOf("send_blob")')
             /\ num_new_blobs' = Cardinality(SentBlobs')]_vars

\* sync_recipe_references returned Ok: one of two blobs and some, not all,
\* of the recipes were new.
C27_Witness ==
    /\ pc = "known_bakes"
    /\ Cardinality(sync_references.blobs) = 2
    /\ num_new_blobs = 1
    /\ new_recipes # {}
    /\ new_recipes # sync_references.recipes

\* A task for blob h holds a save permit.
HeldFor(h) ==
    \/ \E t \in inflight : t.hash = h /\ t.stage = "permit"
    \/ \E d \in detached : d.hash = h /\ d.stage = "permit"

\* The blob phase of the run is over: it has not begun, or it has returned.
BlobPhaseOver == pc # "blobs"

\* C28: every blob upload task resolves and reads its blob while it holds a
\* save permit, and once the blob phase has ended no task of the sync holds
\* a permit.
C28_PermitsReleased ==
    [][/\ \A h \in store_reads' \ store_reads : HeldFor(h)
       /\ BlobPhaseOver' => PermitsHeld' = 0]_vars

\* The steps of sync_recipe_references (lines 103-173).
ReferencesPhase == {"known_blobs", "blobs"} \cup RecipePhase

\* The call log holds no call of a step after sync_recipe_references: no
\* known_bakes and no create_bake, no second known_blobs, no loaded blob
\* sent, no known_projects and no create_projects.
NoLaterStep ==
    /\ \A op \in {"known_bakes", "create_bake", "known_projects", "create_projects"} :
          CallsOf(op) = {}
    /\ LoadedQuery = 0
    /\ loaded_sent = {}
    /\ \A t \in pending \cup inflight : t.op = "send_blob"
    /\ \A d \in detached : d.op = "send_blob"

\* C29: when a step of sync_recipe_references fails the run returns the
\* error at once: the steps after the failed one have issued no call (no
\* known_recipes and no create_recipes after a failed blob upload or
\* known_blobs, no create_recipes after a failed known_recipes, no
\* known_bakes, create_bake, loaded-blob upload, known_projects or
\* create_projects), and from then on the run issues no call: only an
\* upload task of the blob phase may still send its blob, and the recipes,
\* bakes and projects of the registry stay as they are.
C29_FailureStopsSync ==
    [][/\ (pc \in ReferencesPhase /\ error = NoError /\ error' # NoError) =>
             /\ pc' = "failed"
             /\ NoLaterStep'
             /\ pc \in {"known_blobs", "blobs"} =>
                    CallsOf("known_recipes")' = {} /\ CallsOf("create_recipes")' = {}
             /\ pc = "known_recipes" => CallsOf("create_recipes")' = {}
       /\ (pc = "failed" /\ pc' = "failed" /\ NoLaterStep) =>
             /\ NoLaterStep'
             /\ UNCHANGED <<regRecipes, regBakes, regProjects, pending, inflight>>
             /\ \A op \in {"known_blobs", "known_recipes", "create_recipes"} :
                   CallsOf(op)' = CallsOf(op)
             /\ \A i \in CallsOf("send_blob")' \ CallsOf("send_blob") :
                   calls'[i].hashes \subseteq sync_references.blobs]_vars

\* sync_project_references was given a loaded blob and two projects to
\* upload; the upload of blob B1 failed after B2 was sent.
C29_Witness ==
    /\ entry = "sync_project_references"
    /\ pc = "failed"
    /\ error = Call("send_blob", {"B1"}, <<>>)
    /\ Cardinality(CallsOf("send_blob")) = 1
    /\ "L1" \in DOMAIN loaded_blobs
    /\ projects = {"P1", "P2"}
    /\ regProjects = {}
    /\ NoLaterStep

\* The string is the text of a Ulid: 26 upper-case digits, the first at
\* most 7; or the text of a hash: 64 hexadecimal digits.
UlidText(s) ==
    /\ Len(s) = UlidLen
    /\ \A i \in 1..Len(s) : IndexOf(Crockford, s[i]) > 0
    /\ IndexOf(Crockford, s[1]) <= 8
HexText(s) == Len(s) = HexLen /\ \A i \in 1..Len(s) : HexValue(s[i]) >= 0

\* C24: from_str of the string that Display wrote for a FileId returns Ok
\* with that FileId: the same variant and the same value.
C24_RoundTrip ==
    (fid_shown /\ fid_result.op = "from_str") =>
        fid_result = Outcome("from_str", TRUE, fid_id)

C24_Witness ==
    /\ fid_shown
    /\ fid_result.op = "from_str"
    /\ fid_result.id = FileId("Hash", HashValue(10, 15))
    /\ Len(fid_text) = HexLen

\* C25: from_str returns Ok(Mutable) for the 26 characters of a Ulid and
\* Ok(Hash) for 64 hexadecimal digits, each with the value the digits
\* denote; it returns Err for a string of any other number of characters,
\* for 26 characters one of which is no base-32 digit and for 64 characters
\* one of which is no hexadecimal digit; it never returns a Hash for 26
\* characters or a Mutable for 64.
C25_ParseByLength ==
    fid_result.op = "from_str" =>
        /\ UlidText(fid_text) =>
              fid_result = Outcome("from_str", TRUE,
                  FileId("Mutable", [i \in 1..UlidLen |-> IndexOf(Crockford, fid_text[i]) - 1]))
        /\ HexText(fid_text) =>
              fid_result = Outcome("from_str", TRUE,
                  FileId("Hash", [i \in 1..HexLen |-> HexValue(fid_text[i])]))
        /\ Len(fid_text) \notin {UlidLen, HexLen} => ~fid_result.ok
        /\ (\E i \in 1..Len(fid_text) : CrockfordValue(fid_text[i]) < 0 /\ HexValue(fid_text[i]) < 0)
              => ~fid_result.ok
        /\ (Len(fid_text) = UlidLen /\ \E i \in 1..UlidLen : CrockfordValue(fid_text[i]) < 0)
              => ~fid_result.ok
        /\ (Len(fid_text) = HexLen /\ ~HexText(fid_text)) => ~fid_result.ok
        /\ fid_result.ok =>
              /\ fid_result.id.kind = "Mutable" <=> Len(fid_text) = UlidLen
              /\ fid_result.id.kind = "Hash" <=> Len(fid_text) = HexLen

\* from_str returned Err for 32 hexadecimal digits.
C25_Witness ==
    /\ fid_result = Err("from_str")
    /\ Len(fid_text) = 32
    /\ \A i \in 1..Len(fid_text) : HexValue(fid_text[i]) >= 0

\* C26: validate_matches returns Ok exactly when the id is Hash(h) and h is
\* the BLAKE3 hash of the contents; it returns Err for every Mutable id.
C26_ValidateMatches ==
    fid_result.op = "validate_matches" =>
        /\ fid_result.ok <=> (fid_id.kind = "Hash" /\ fid_id.v = Blake3Hash(fid_bytes))
        /\ fid_id.kind = "Mutable" => ~fid_result.ok

C26_Witness ==
    /\ fid_result.op = "validate_matches"
    /\ fid_id.kind = "Mutable"
    /\ ~fid_result.ok

\* Calls that hold a read guard.
Readers == {a \in active : a.op \in {"load_cached", "read"}}

\* C21: the tables change only while no caller holds a read guard, so what
\* a load_cached or read call sees does not change while it looks; the
\* bytes it returns for an id are the whole contents of that id at the
\* moment it returns, never a half-written entry; and while no update is
\* writing, every id has exactly one content and every path of the id
\* yields it.
C21_UpdateAtomic ==
    [][/\ vfsTables' # vfsTables => Readers = {} /\ Readers' = {}
       /\ \A a \in Readers \ Readers' :
             /\ last'.bytes # Torn
             /\ last'.id \in DOMAIN contents' /\ last'.res = "ok" =>
                   last'.bytes = contents'[last'.id]
       /\ rwlock'.writer = "none" =>
             /\ \A id \in DOMAIN contents' : contents'[id] \in FileBytes
             /\ \A path \in DOMAIN locations_to_ids' :
                   ~poisoned' =>
                       LoadCachedResult(path)'.bytes = contents'[locations_to_ids'[path]]]_vars

\* load_cached holds its read guard on a Mutable id whose bytes an update
\* has replaced, so that no writer can take the lock.
C21_Witness ==
    /\ \E a \in Readers :
          /\ a.op = "load_cached"
          /\ a.stage = "found"
          /\ a.id.kind = "Mutable"
          /\ contents[a.id] = "y"
          /\ disk[a.path] = "x"
          /\ last = Return("update", "ok", a.id, "y", "")
    /\ ~CanWrite

\* C30: the FileId of a path that has one never changes: every load and
\* load_cached of the path returns the id that the first load returned.
C30_StableFileId ==
    [][\A path \in DOMAIN locations_to_ids :
          /\ path \in DOMAIN locations_to_ids'
          /\ locations_to_ids'[path] = locations_to_ids[path]]_vars

\* The paths listed for an id, and how often a path is listed.
LocationsOf(id) == IF id \in DOMAIN ids_to_locations THEN ids_to_locations[id] ELSE <<>>
TimesListed(id, path) ==
    Cardinality({i \in DOMAIN LocationsOf(id) : LocationsOf(id)[i] = path})

\* C31: the three tables agree: a path of locations_to_ids maps to a key of
\* contents whose list of locations holds the path; a path listed for an id
\* maps back to that id and is listed once; contents and ids_to_locations
\* have the same keys.
C31_TablesAgree ==
    /\ \A path \in DOMAIN locations_to_ids :
          /\ locations_to_ids[path] \in DOMAIN contents
          /\ TimesListed(locations_to_ids[path], path) >= 1
    /\ \A id \in DOMAIN ids_to_locations :
          \A i \in DOMAIN ids_to_locations[id] :
             LET path == ids_to_locations[id][i]
             IN /\ path \in DOMAIN locations_to_ids
                /\ locations_to_ids[path] = id
                /\ TimesListed(id, path) = 1
    /\ DOMAIN contents = DOMAIN ids_to_locations

\* C32: update does not panic, and the lock of the Vfs is never poisoned, so
\* that every later call can acquire it.
C32_UpdateNeverPanics == last.res # "panic" /\ ~poisoned

\* C33: whatever the registry answers, no count underflows, and a
\* successful run returns the number of send_blob calls as num_new_blobs and
\* the number of create_bake calls as num_new_bakes.
C33_CountsMatchUploads ==
    /\ pc # "panicked"
    /\ num_new_blobs >= 0
    /\ num_new_bakes >= 0
    /\ pc = "done" =>
          /\ num_new_blobs = Cardinality(CallsOf("send_blob"))
          /\ num_new_bakes = Cardinality(CallsOf("create_bake"))

\* Events of the Shutdown type among the applied events.
ShutdownsHandled == {i \in DOMAIN handled : handled[i].type = "Shutdown"}
Finalized == thread \in {"ack", "exited"}

\* C34: the reporter thread applies the events in the order they were sent;
\* once the console is finalized every event sent before the Shutdown that
\* ended the loop has been applied, so what is left in the channel was sent
\* after it; and the acknowledgement is sent by the thread only from behind
\* finalize, with the loop ended.
C34_EventOrder ==
    [][/\ \A i, j \in DOMAIN handled' : i < j => handled'[i].n < handled'[j].n
       /\ Finalized' =>
             /\ ShutdownsHandled' # {}
             /\ \A i \in DOMAIN channel' :
                   \E j \in ShutdownsHandled' : handled'[j].n < channel'[i].n
       /\ (ack # "sent" /\ ack' = "sent") => thread = "ack" /\ ~running]_vars

C34_Witness ==
    /\ ack = "sent"
    /\ Len(handled) >= 3
    /\ \E i \in DOMAIN handled : handled[i].type = "UpdateJobState"
    /\ \E i \in ShutdownsHandled : i < Len(handled)

\* C35: an awaiting shutdown_console returns; with the console reporter the
\* thread has by then left its loop, finalized and acknowledged; the guard
\* of start_lsp_reporter never awaits; and a guard whose shutdown_console
\* has returned is dropped without waiting.
C35_ShutdownReturns ==
    /\ (guard = "awaiting") ~> (guard = "returned")
    /\ (rep_kind = "console" /\ guard = "awaiting") ~> (thread = "exited" /\ ack = "sent")
    /\ [][/\ rep_kind = "lsp" => guard' # "awaiting"
          /\ guard = "returned" => guard' # "dropping"
          /\ (rep_kind = "console" /\ guard = "awaiting" /\ guard' = "returned")
                => thread = "exited" /\ ack = "sent"]_vars

C35_Witness ==
    /\ rep_kind = "console"
    /\ guard = "returned"
    /\ thread = "exited"
    /\ ack = "sent"
    /\ shutdown_rx = "None"
    /\ Len(handled) >= 2

\* The add_job calls that have got their id.
JobCalls == {job_ids[i] : i \in DOMAIN job_ids} \cup {[id |-> a.id, call |-> a.call] : a \in adding}

\* C36: two add_job calls never get the same JobId, whichever clones make
\* them and however they overlap, and an UpdateJobState event is applied to
\* the job of the add_job call its id was returned by.
C36_UniqueJobIds ==
    /\ \A a, b \in JobCalls : a.id = b.id => a.call = b.call
    /\ \A i \in DOMAIN handled :
          handled[i].type = "UpdateJobState" => handled[i].reached = handled[i].call

C36_Witness ==
    /\ Len(job_ids) = 2
    /\ \E i, j \in DOMAIN handled :
          /\ i < j
          /\ handled[i].type = "AddJob"
          /\ handled[j].type = "AddJob"
          /\ handled[i].id > handled[j].id
    /\ \E i \in DOMAIN handled : handled[i].type = "UpdateJobState" /\ handled[i].reached # 0

\* C37: every update sent from inside the loop of resolve_unpack carries a
\* progress_percent of 0..99; 100 is carried by one update only, the last
\* one, sent when every entry has been read and inserted; an unpack that
\* failed or was dropped has sent no update with 100.
C37_UnpackProgress ==
    /\ \A i \in DOMAIN progress :
          /\ progress[i] \in 0..100
          /\ progress[i] = 100 => i = Len(progress) /\ unpack_pc = "done"
    /\ unpack_pc = "done" =>
          /\ archive = 0
          /\ progress # <<>>
          /\ progress[Len(progress)] = 100

C37_Witness ==
    /\ unpack_pc = "done"
    /\ Len(progress) = 4
    /\ progress[1] < 99
    /\ progress[3] = 99
    /\ directory = {"a", "b"}

====
